---------------------------- MODULE Spec2Model ----------------------------
(***************************************************************************)
(* State-machine model of the golang-socketio server engine:               *)
(*   - the server registry (channels, rooms, sids) with Join, Leave and    *)
(*     the connect / disconnect system hooks            (server.go)        *)
(*   - the per-session engine: session setup, out-loop, in-loop, the       *)
(*     closure protocol and safe-send                    (loop.go)         *)
(*   - the rate limiter and its dispatch tasks           (options.go)      *)
(*   - the task counter and Shutdown                     (server.go)       *)
(* Critical sections guarded by a Go mutex are single actions; everything  *)
(* outside a lock is one action per blocking or observable step.           *)
(***************************************************************************)
EXTENDS Integers, Sequences, FiniteSets, TLC

\* ------------------------------------------------------------- bounds
NumChans == 2          \* sessions of the registry specification
NumRooms == 2          \* room names
QueueBufferSize == 3   \* capacity of a session's outbound queue
MaxFrames == 2         \* inbound frames a peer sends on one session
MaxEmits == 1          \* user emits on one session
MaxLimit == 1          \* largest rate limit configured
MaxAckId == 2          \* ack ids a peer puts into its ACK-REQ messages
MaxPings == 1          \* ticks of one pinger's ticker
MaxRedials == 1         \* calls of Redial on one client
NumLockTasks == 2      \* tasks that call the locking operations at once

Chans == 1..NumChans
Rooms == 1..NumRooms
\* the engine specifications run one session: sessions share only the
\* registry, the done signal and the task counter
EngineChans == {1}
Limits == (-1)..MaxLimit
\* the chans, conns and task triples of a client: 0 is Dial's, r is Redial r's
Gens == 0..MaxRedials
ClientTasks == {"in", "out", "ping"} \X Gens
\* sids a peer may put into an OPEN frame's header
PeerSids == {0}
\* the tasks that call the locking operations
LockTasks == 1..NumLockTasks
\* a task that is in no locking operation
LkIdle == [op |-> "idle", pc |-> "idle", c |-> 0, r |-> 0, todo |-> {}]

VARIABLES
    \* Server
    channels,     \* room -> set of channels   (a Go map: DOMAIN = keys)
    rooms,        \* channel -> set of rooms   (a Go map: DOMAIN = keys)
    sids,         \* sid -> channel            (a Go map: DOMAIN = keys)
    done,         \* Server.done is closed
    count,        \* *Server.count
    limit,        \* Server.limit
    shPc,         \* Shutdown: "idle" | "poll" | "nil" | "err"
    shRes,        \* the count Shutdown observed when it returned
    \* Channel
    active,       \* the sessions this specification runs
    setupPc,      \* position of SetupEventLoop
    hdrSid,       \* Channel.header.Sid
    alive,        \* Channel.alive
    aliveC,       \* Channel.aliveC is closed
    connCloses,   \* calls of conn.Close()
    closer,       \* the task that won closeChannel's critical section
    discPc,       \* position of that task in callLoopEvent(OnDisconnection)
    events,       \* lifecycle events raised, in order
    out,          \* Channel.out
    nEnq,         \* frames enqueued so far
    outPc,        \* position of outLoop
    outErr,       \* the error outLoop is about to return
    wlog,         \* frames passed to conn.WriteMessage, in order
    nEmits,       \* user emits so far
    inPc,         \* position of inLoop
    inErr,        \* the error inLoop is about to return
    nRead,        \* frames GetMessage has returned
    rl,           \* occupied slots of the limiter
    tasks,        \* dispatch tasks: frame -> "run" | "rel" | "dec"
    handled,      \* frames whose handler was called
    pingPc,       \* position of pinger
    nPings,       \* ticks of the pinger's ticker
    msgs,         \* the messages processIncomingMessage was given, by frame
    calls,        \* handler invocations: frame -> [m: method, a: argument]
    ackOut,       \* the ACK-RESP messages enqueued, in order
    \* Server.BroadcastTo
    bcPc,         \* position of BroadcastTo: "idle" | "iter" | "done"
    bcRoom,       \* its room argument
    bcTodo,       \* the channels of roomChannels its range has yet to visit
    emitting,     \* the go cn.Emit tasks that have not returned, by channel
    \* Client (client.go with the loops of part_000)
    clAlive,      \* Client.Channel.alive
    clOut,        \* the chan Client.Channel.out refers to, by number
    clConn,       \* the conn Client.Channel.conn refers to, by number
    chans,        \* the chans initChannel made: number -> frames
    connClosed,   \* the conns that were closed
    clPc,         \* position of each task of the client that was started
    held,         \* the chan, conn or Redial a task's current call works on
    nRedials,     \* calls of Redial
    clRead,       \* frames each in-loop of the client has read
    clPings,      \* wake-ups of each pinger of the client
    \* the mutexes: channelsLock, sidsLock, every Channel.aliveLock
    lkPc,         \* position of each task that calls a locking operation
    lkHeld,       \* <<task, lock, mode>>: the locks held, "w" or "r"
    errLog        \* what the ErrorHandler received, in order

regVars  == <<channels, rooms, sids>>
srvVars  == <<done, count, limit, shPc, shRes>>
setupVars == <<active, setupPc, hdrSid>>
lifeVars == <<alive, aliveC, connCloses, closer, discPc>>
outVars  == <<out, nEnq, outPc, outErr, wlog, nEmits>>
inVars   == <<inPc, inErr, nRead, rl, tasks, handled>>
pingVars == <<pingPc, nPings>>
ackVars == <<msgs, calls, ackOut>>
bcVars == <<bcPc, bcRoom, bcTodo, emitting>>
cliVars == <<clAlive, clOut, clConn, chans, connClosed, clPc, held, nRedials,
             clRead, clPings>>
lockVars == <<lkPc, lkHeld>>

vars == <<regVars, srvVars, setupVars, lifeVars, events, outVars, inVars, pingVars,
          errLog, ackVars, cliVars,
          bcVars, lockVars>>

\* ------------------------------------------------------------ Go maps
MapHas(m, k) == k \in DOMAIN m
MapPut(m, k, v) == [x \in DOMAIN m \cup {k} |-> IF x = k THEN v ELSE m[x]]
MapDel(m, k) == [x \in DOMAIN m \ {k} |-> m[x]]
EmptyMap == [x \in {} |-> {}]
\* len(m[k]) semantics of a missing key: the zero value
MapGet(m, k) == IF k \in DOMAIN m THEN m[k] ELSE {}

\* Channel.Id()
Id(c) == hdrSid[c]

\* a user task holds a pointer to the channel: it was handed to a handler
Exposed(c) == events[c] # <<>> \/ handled[c] # {}

\* -------------------------------------------------------- registry
\* Channel.Join: both maps under channelsLock
Join(c, r) ==
    /\ c \in active /\ Exposed(c)
    /\ channels' = MapPut(channels, r, MapGet(channels, r) \cup {c})
    /\ rooms' = MapPut(rooms, c, MapGet(rooms, c) \cup {r})
    /\ UNCHANGED <<sids, srvVars, setupVars, lifeVars, events, outVars, inVars, errLog,
                   pingVars, ackVars, cliVars, bcVars, lockVars>>

\* LeaveChannels without the delete of the emptied room's key
LeaveChannelsKeepKey(cn, c, r) ==
    IF MapHas(cn, r) THEN MapPut(cn, r, cn[r] \ {c}) ELSE cn

\* the room's set once c has left it; the key goes when the set is empty
LeaveChannels(cn, c, r) ==
    IF MapHas(cn, r)
    THEN IF cn[r] \ {c} = {} THEN MapDel(cn, r) ELSE MapPut(cn, r, cn[r] \ {c})
    ELSE cn

\* Leave without the delete from rooms[c]
LeaveOneSided(c, r) ==
    /\ c \in active /\ Exposed(c)
    /\ channels' = LeaveChannels(channels, c, r)
    /\ UNCHANGED <<rooms, sids, srvVars, setupVars, lifeVars, events, outVars, inVars, errLog,
                   pingVars, ackVars, cliVars, bcVars, lockVars>>

\* Channel.Leave: both maps under channelsLock
Leave(c, r) ==
    /\ c \in active /\ Exposed(c)
    /\ channels' = LeaveChannels(channels, c, r)
    /\ rooms' = IF MapHas(rooms, c) THEN MapPut(rooms, c, rooms[c] \ {r}) ELSE rooms
    /\ UNCHANGED <<sids, srvVars, setupVars, lifeVars, events, outVars, inVars, errLog,
                   pingVars, ackVars, cliVars, bcVars, lockVars>>

\* onDisconnectCleanup's loop over rooms[c]: c leaves every room in rs
RECURSIVE CleanRooms(_, _, _)
CleanRooms(cn, c, rs) ==
    IF rs = {} THEN cn
    ELSE LET r == CHOOSE x \in rs : TRUE
         IN CleanRooms(LeaveChannels(cn, c, r), c, rs \ {r})

\* onConnectStore
onConnectStore(c) == sids' = MapPut(sids, Id(c), c)

\* ------------------------------------------------------ closeChannel
\* closeChannel without the test of c.alive
closeChannelUnguarded(c, who) ==
    /\ connCloses' = [connCloses EXCEPT ![c] = @ + 1]
    /\ alive' = [alive EXCEPT ![c] = FALSE]
    /\ aliveC' = [aliveC EXCEPT ![c] = TRUE]
    /\ closer' = [closer EXCEPT ![c] = who]
    /\ discPc' = [discPc EXCEPT ![c] = "raise"]

\* closeChannel's critical section under aliveLock, called by task who
closeChannel(c, who) ==
    IF ~alive[c]
    THEN UNCHANGED <<alive, aliveC, connCloses, closer, discPc>>
    ELSE /\ connCloses' = [connCloses EXCEPT ![c] = @ + 1]
         /\ alive' = [alive EXCEPT ![c] = FALSE]
         /\ aliveC' = [aliveC EXCEPT ![c] = TRUE]
         /\ closer' = [closer EXCEPT ![c] = who]
         /\ discPc' = [discPc EXCEPT ![c] = "raise"]

\* the task who has returned from closeChannel
Closed(c, who) == closer[c] # who \/ discPc[c] = "done"

\* callLoopEvent(c, OnDisconnection): the event is raised and the system
\* slot onDisconnectCleanup runs its region under channelsLock
DiscCleanRooms(c) ==
    /\ discPc[c] = "raise"
    /\ events' = [events EXCEPT ![c] = Append(@, "disc")]
    /\ IF MapHas(rooms, c)
       THEN /\ channels' = CleanRooms(channels, c, rooms[c])
            /\ rooms' = MapDel(rooms, c)
       ELSE UNCHANGED <<channels, rooms>>
    /\ discPc' = [discPc EXCEPT ![c] = "cleanSid"]
    /\ UNCHANGED <<sids, srvVars, setupVars, alive, aliveC, connCloses, closer,
                   outVars, inVars, errLog, pingVars, ackVars, cliVars, bcVars,
                   lockVars>>

\* callLoopEvent(c, OnDisconnection) that calls the user's handler with the
\* sid still stored
DiscCleanSidSkipped(c) ==
    /\ discPc[c] = "cleanSid"
    /\ discPc' = [discPc EXCEPT ![c] = "handler"]
    /\ UNCHANGED <<regVars, srvVars, setupVars, alive, aliveC, connCloses,
                   closer, events, outVars, inVars, errLog, pingVars, ackVars,
                   cliVars, bcVars, lockVars>>

\* onDisconnectCleanup's region under sidsLock
DiscCleanSid(c) ==
    /\ discPc[c] = "cleanSid"
    /\ sids' = MapDel(sids, Id(c))
    /\ discPc' = [discPc EXCEPT ![c] = "handler"]
    /\ UNCHANGED <<channels, rooms, srvVars, setupVars, alive, aliveC, connCloses,
                   closer, events, outVars, inVars, errLog, pingVars, ackVars,
                   cliVars, bcVars, lockVars>>

\* the user's OnDisconnection handler returns, and with it closeChannel
DiscHandler(c) ==
    /\ discPc[c] = "handler"
    /\ discPc' = [discPc EXCEPT ![c] = "done"]
    /\ UNCHANGED <<regVars, srvVars, setupVars, alive, aliveC, connCloses,
                   closer, events, outVars, inVars, errLog, pingVars, ackVars,
                   cliVars, bcVars, lockVars>>

\* Channel.Close() from a user task
Close(c) ==
    /\ c \in active /\ Exposed(c)
    /\ closeChannel(c, "user")
    /\ UNCHANGED <<regVars, srvVars, setupVars, events, outVars, inVars, errLog,
                   pingVars, ackVars, cliVars, bcVars, lockVars>>

\* ------------------------------------------------------------ sendOut
Frame(c, kind) == [k |-> kind, n |-> nEnq[c] + 1]

\* a plain send c.out <- msg, which only a free slot of the queue releases
sendOutBlocking(c, kind) ==
    /\ Len(out[c]) < QueueBufferSize
    /\ out' = [out EXCEPT ![c] = Append(@, Frame(c, kind))]
    /\ nEnq' = [nEnq EXCEPT ![c] = @ + 1]

\* Channel.sendOut: a select over the enqueue, done and aliveC; Go picks
\* any ready case, and blocks while none is
sendOut(c, kind) ==
    \/ /\ Len(out[c]) < QueueBufferSize
       /\ out' = [out EXCEPT ![c] = Append(@, Frame(c, kind))]
       /\ nEnq' = [nEnq EXCEPT ![c] = @ + 1]
    \/ /\ done \/ aliveC[c]
       /\ UNCHANGED <<out, nEnq>>

\* Server.inc / Server.dec
inc == count' = count + 1
dec == count' = count - 1

\* ErrorHandler.call
ehCall(c, e, k) == errLog' = [errLog EXCEPT ![c] = Append(@, [e |-> e, k |-> k])]

\* generateNewId: a fresh id for each session
generateNewId(c) == c

\* ------------------------------------------------------ SetupEventLoop
\* lines 329-350: the channel is built and startLoop(outLoop) spawns the out-loop
SetupEventLoop(c) ==
    /\ c \in active /\ setupPc[c] = "new"
    /\ hdrSid' = [hdrSid EXCEPT ![c] = generateNewId(c)]
    /\ alive' = [alive EXCEPT ![c] = TRUE]
    /\ inc
    /\ outPc' = [outPc EXCEPT ![c] = "check"]
    /\ setupPc' = [setupPc EXCEPT ![c] = "open1"]
    /\ UNCHANGED <<regVars, done, limit, shPc, shRes, active, aliveC, connCloses,
                   closer, discPc, events, out, nEnq, outErr, wlog,
                   nEmits, inVars, errLog, pingVars, ackVars, cliVars, bcVars,
                   lockVars>>

\* SendOpenSequence: the OPEN frame
SendOpen1(c) ==
    /\ setupPc[c] = "open1"
    /\ sendOut(c, "OPEN")
    /\ setupPc' = [setupPc EXCEPT ![c] = "open2"]
    /\ UNCHANGED <<regVars, srvVars, active, hdrSid, lifeVars, events, outPc,
                   outErr, wlog, nEmits, inVars, errLog, pingVars, ackVars,
                   cliVars, bcVars, lockVars>>

\* SendOpenSequence: the EMPTY frame
SendOpen2(c) ==
    /\ setupPc[c] = "open2"
    /\ sendOut(c, "EMPTY")
    /\ setupPc' = [setupPc EXCEPT ![c] = "startIn"]
    /\ UNCHANGED <<regVars, srvVars, active, hdrSid, lifeVars, events, outPc,
                   outErr, wlog, nEmits, inVars, errLog, pingVars, ackVars,
                   cliVars, bcVars, lockVars>>

\* startLoop(inLoop)
StartInLoop(c) ==
    /\ setupPc[c] = "startIn"
    /\ inc
    /\ inPc' = [inPc EXCEPT ![c] = "read"]
    /\ setupPc' = [setupPc EXCEPT ![c] = "onConn"]
    /\ UNCHANGED <<regVars, done, limit, shPc, shRes, active, hdrSid, lifeVars,
                   events, outVars, inErr, nRead, rl, tasks, handled, errLog,
                   pingVars, ackVars, cliVars, bcVars, lockVars>>

\* callLoopEvent(c, OnConnection): the event is raised, onConnectStore runs
SetupOnConnection(c) ==
    /\ setupPc[c] = "onConn"
    /\ events' = [events EXCEPT ![c] = Append(@, "conn")]
    /\ onConnectStore(c)
    /\ setupPc' = [setupPc EXCEPT ![c] = "connHandler"]
    /\ UNCHANGED <<channels, rooms, srvVars, active, hdrSid, lifeVars, outVars,
                   inVars, errLog, pingVars, ackVars, cliVars, bcVars, lockVars>>

\* the user's OnConnection handler returns, and with it SetupEventLoop
SetupConnHandler(c) ==
    /\ setupPc[c] = "connHandler"
    /\ setupPc' = [setupPc EXCEPT ![c] = "served"]
    /\ UNCHANGED <<regVars, srvVars, active, hdrSid, lifeVars, events, outVars,
                   inVars, errLog, pingVars, ackVars, cliVars, bcVars, lockVars>>

\* ------------------------------------------------------------ outLoop
\* the overflood test at the top of the loop
OutCheck(c) ==
    /\ outPc[c] = "check"
    /\ IF Len(out[c]) >= QueueBufferSize - 1
       THEN /\ closeChannel(c, "out")
            /\ outErr' = [outErr EXCEPT ![c] = "overflood"]
            /\ outPc' = [outPc EXCEPT ![c] = "closing"]
       ELSE /\ outPc' = [outPc EXCEPT ![c] = "select"]
            /\ UNCHANGED <<lifeVars, outErr>>
    /\ UNCHANGED <<regVars, srvVars, setupVars, events, out, nEnq, wlog, nEmits,
                   inVars, errLog, pingVars, ackVars, cliVars, bcVars, lockVars>>

\* case <-c.done returning without the call of closeChannel
OutSelectDoneNoClose(c) ==
    /\ outPc[c] = "select" /\ done
    /\ outPc' = [outPc EXCEPT ![c] = "exited"]
    /\ dec
    /\ UNCHANGED <<regVars, done, limit, shPc, shRes, setupVars, lifeVars, events,
                   out, nEnq, outErr, wlog, nEmits, inVars, errLog, pingVars,
                   ackVars, cliVars, bcVars, lockVars>>

\* select: case <-c.done
OutSelectDone(c) ==
    /\ outPc[c] = "select" /\ done
    /\ closeChannel(c, "out")
    /\ outPc' = [outPc EXCEPT ![c] = "closing"]
    /\ UNCHANGED <<regVars, srvVars, setupVars, events, out, nEnq, outErr, wlog,
                   nEmits, inVars, errLog, pingVars, ackVars, cliVars, bcVars,
                   lockVars>>

\* select: case <-c.aliveC; the loop returns nil and startLoop's dec runs
OutSelectAlive(c) ==
    /\ outPc[c] = "select" /\ aliveC[c]
    /\ outPc' = [outPc EXCEPT ![c] = "exited"]
    /\ dec
    /\ UNCHANGED <<regVars, done, limit, shPc, shRes, setupVars, lifeVars, events,
                   out, nEnq, outErr, wlog, nEmits, inVars, errLog, pingVars,
                   ackVars, cliVars, bcVars, lockVars>>

\* the case of the select that receives from c.out is ready
OutMsgReady(c) == out[c] # <<>>

\* the receive from c.out taking the newest frame instead of the oldest
OutSelectMsgNewest(c) ==
    /\ outPc[c] = "select" /\ OutMsgReady(c)
    /\ LET f == out[c][Len(out[c])]
       IN wlog' = [wlog EXCEPT ![c] =
                     Append(@, [n |-> f.n, k |-> f.k, closed |-> aliveC[c]])]
    /\ out' = [out EXCEPT ![c] = SubSeq(@, 1, Len(@) - 1)]
    /\ outPc' = [outPc EXCEPT ![c] = "write"]
    /\ UNCHANGED <<regVars, srvVars, setupVars, lifeVars, events, nEnq, outErr,
                   nEmits, inVars, errLog, pingVars, ackVars, cliVars, bcVars,
                   lockVars>>

\* select: case msg := <-c.out; conn.WriteMessage(msg) is called
OutSelectMsg(c) ==
    /\ outPc[c] = "select" /\ OutMsgReady(c)
    /\ wlog' = [wlog EXCEPT ![c] =
                  Append(@, [n |-> Head(out[c]).n, k |-> Head(out[c]).k,
                             closed |-> aliveC[c]])]
    /\ out' = [out EXCEPT ![c] = Tail(@)]
    /\ outPc' = [outPc EXCEPT ![c] = "write"]
    /\ UNCHANGED <<regVars, srvVars, setupVars, lifeVars, events, nEnq, outErr,
                   nEmits, inVars, errLog, pingVars, ackVars, cliVars, bcVars,
                   lockVars>>

\* WriteMessage returns: nil, or an error (the only outcome on a closed conn)
OutWriteRet(c, ok) ==
    /\ outPc[c] = "write"
    /\ ok => connCloses[c] = 0
    /\ IF ok
       THEN /\ outPc' = [outPc EXCEPT ![c] = "check"]
            /\ UNCHANGED <<lifeVars, outErr>>
       ELSE /\ closeChannel(c, "out")
            /\ outErr' = [outErr EXCEPT ![c] = "write"]
            /\ outPc' = [outPc EXCEPT ![c] = "closing"]
    /\ UNCHANGED <<regVars, srvVars, setupVars, events, out, nEnq, wlog, nEmits,
                   inVars, errLog, pingVars, ackVars, cliVars, bcVars, lockVars>>

\* closeChannel has returned: outLoop returns, startLoop reports the error
\* and its deferred dec runs
OutExit(c) ==
    /\ outPc[c] = "closing" /\ Closed(c, "out")
    /\ IF outErr[c] # "none" THEN ehCall(c, outErr[c], 0) ELSE UNCHANGED errLog
    /\ dec
    /\ outPc' = [outPc EXCEPT ![c] = "exited"]
    /\ UNCHANGED <<regVars, done, limit, shPc, shRes, setupVars, lifeVars, events,
                   out, nEnq, outErr, wlog, nEmits, inVars, pingVars, ackVars,
                   cliVars, bcVars, lockVars>>

\* ------------------------------------------------------------- inLoop
\* a read error handled without the select over done and aliveC
InReadErrNoSelect(c) ==
    /\ inPc[c] = "read"
    /\ closeChannel(c, "in")
    /\ inErr' = [inErr EXCEPT ![c] = "read"]
    /\ inPc' = [inPc EXCEPT ![c] = "closing"]
    /\ UNCHANGED <<regVars, srvVars, setupVars, events, outVars, nRead, rl, tasks,
                   handled, errLog, pingVars, ackVars, cliVars, bcVars, lockVars>>

\* GetMessage fails (a receive timeout, a transport error, a closed conn)
InReadErr(c) ==
    /\ inPc[c] = "read"
    /\ IF done \/ aliveC[c]
       THEN /\ inPc' = [inPc EXCEPT ![c] = "exited"]
            /\ dec
            /\ UNCHANGED <<lifeVars, inErr>>
       ELSE /\ closeChannel(c, "in")
            /\ inErr' = [inErr EXCEPT ![c] = "read"]
            /\ inPc' = [inPc EXCEPT ![c] = "closing"]
            /\ UNCHANGED count
    /\ UNCHANGED <<regVars, done, limit, shPc, shRes, setupVars, events, outVars,
                   nRead, rl, tasks, handled, errLog, pingVars, ackVars, cliVars,
                   bcVars, lockVars>>

\* GetMessage can return a frame: the conn is open and the peer has one
CanRead(c) == inPc[c] = "read" /\ connCloses[c] = 0 /\ nRead[c] < MaxFrames

\* protocol.Decode fails on the frame read
InDecodeErr(c, e) ==
    /\ CanRead(c)
    /\ nRead' = [nRead EXCEPT ![c] = @ + 1]
    /\ closeChannel(c, "in")
    /\ inErr' = [inErr EXCEPT ![c] = e]
    /\ inPc' = [inPc EXCEPT ![c] = "closing"]
    /\ UNCHANGED <<regVars, srvVars, setupVars, events, outVars, rl, tasks, handled,
                   errLog, pingVars, ackVars, cliVars, bcVars, lockVars>>

\* an OPEN frame whose header does not decode, handled as the loop of
\* part_000 does: the channel is closed, then OnConnection is raised
InOpenErrNoReturn(c, s) ==
    /\ CanRead(c)
    /\ nRead' = [nRead EXCEPT ![c] = @ + 1]
    /\ hdrSid' = [hdrSid EXCEPT ![c] = s]
    /\ closeChannel(c, "in")
    /\ events' = [events EXCEPT ![c] = Append(@, "conn")]
    /\ inPc' = [inPc EXCEPT ![c] = "connHandler"]
    /\ UNCHANGED <<regVars, srvVars, active, setupPc, outVars, inErr, rl, tasks,
                   handled, errLog, pingVars, ackVars, cliVars, bcVars, lockVars>>

\* an OPEN frame whose payload json.Unmarshal rejects: the fields decoded
\* before the error are stored in c.header (s), the channel is closed and
\* the in-loop returns the error
InOpenErr(c, s) ==
    /\ CanRead(c)
    /\ nRead' = [nRead EXCEPT ![c] = @ + 1]
    /\ hdrSid' = [hdrSid EXCEPT ![c] = s]
    /\ closeChannel(c, "in")
    /\ inErr' = [inErr EXCEPT ![c] = "header"]
    /\ inPc' = [inPc EXCEPT ![c] = "closing"]
    /\ UNCHANGED <<regVars, srvVars, active, setupPc, events, outVars, rl, tasks,
                   handled, errLog, pingVars, ackVars, cliVars, bcVars, lockVars>>

\* an OPEN frame: the header is decoded over c.header, OnConnection is raised
InOpen(c, s) ==
    /\ CanRead(c)
    /\ nRead' = [nRead EXCEPT ![c] = @ + 1]
    /\ hdrSid' = [hdrSid EXCEPT ![c] = s]
    /\ events' = [events EXCEPT ![c] = Append(@, "conn")]
    /\ sids' = MapPut(sids, s, c)
    /\ inPc' = [inPc EXCEPT ![c] = "connHandler"]
    /\ UNCHANGED <<channels, rooms, srvVars, active, setupPc, lifeVars, outVars,
                   inErr, rl, tasks, handled, errLog, pingVars, ackVars, cliVars,
                   bcVars, lockVars>>

\* the user's OnConnection handler returns to the in-loop
InConnHandler(c) ==
    /\ inPc[c] = "connHandler"
    /\ inPc' = [inPc EXCEPT ![c] = "read"]
    /\ UNCHANGED <<regVars, srvVars, setupVars, lifeVars, events, outVars, inErr,
                   nRead, rl, tasks, handled, errLog, pingVars, ackVars, cliVars,
                   bcVars, lockVars>>

\* a PING frame
InPing(c) ==
    /\ CanRead(c)
    /\ nRead' = [nRead EXCEPT ![c] = @ + 1]
    /\ inPc' = [inPc EXCEPT ![c] = "pong"]
    /\ UNCHANGED <<regVars, srvVars, setupVars, lifeVars, events, outVars, inErr,
                   rl, tasks, handled, errLog, pingVars, ackVars, cliVars,
                   bcVars, lockVars>>

\* c.sendOut(protocol.PongMessage)
InPong(c) ==
    /\ inPc[c] = "pong"
    /\ sendOut(c, "PONG")
    /\ inPc' = [inPc EXCEPT ![c] = "read"]
    /\ UNCHANGED <<regVars, srvVars, setupVars, lifeVars, events, outPc, outErr,
                   wlog, nEmits, inErr, nRead, rl, tasks, handled, errLog,
                   pingVars, ackVars, cliVars, bcVars, lockVars>>

\* a PONG frame
InPongFrame(c) ==
    /\ CanRead(c)
    /\ nRead' = [nRead EXCEPT ![c] = @ + 1]
    /\ UNCHANGED <<regVars, srvVars, setupVars, lifeVars, events, outVars, inPc,
                   inErr, rl, tasks, handled, errLog, pingVars, ackVars, cliVars,
                   bcVars, lockVars>>

\* -------------------------------------------------------------- pinger
\* go pinger(&c.Channel): the session's creator starts the pinger
GoPinger(c) ==
    /\ setupPc[c] = "open1" /\ pingPc[c] = "idle"
    /\ pingPc' = [pingPc EXCEPT ![c] = "select"]
    /\ UNCHANGED <<regVars, srvVars, setupVars, lifeVars, events, outVars, inVars,
                   nPings, errLog, ackVars, cliVars, bcVars, lockVars>>

\* select: case <-c.done
PingSelectDone(c) ==
    /\ pingPc[c] = "select" /\ done
    /\ pingPc' = [pingPc EXCEPT ![c] = "exited"]
    /\ UNCHANGED <<regVars, srvVars, setupVars, lifeVars, events, outVars, inVars,
                   nPings, errLog, ackVars, cliVars, bcVars, lockVars>>

\* select: case <-c.aliveC
PingSelectAlive(c) ==
    /\ pingPc[c] = "select" /\ aliveC[c]
    /\ pingPc' = [pingPc EXCEPT ![c] = "exited"]
    /\ UNCHANGED <<regVars, srvVars, setupVars, lifeVars, events, outVars, inVars,
                   nPings, errLog, ackVars, cliVars, bcVars, lockVars>>

\* select: case <-ticker.C, with the test of c.IsAlive()
PingTick(c) ==
    /\ pingPc[c] = "select" /\ nPings[c] < MaxPings
    /\ nPings' = [nPings EXCEPT ![c] = @ + 1]
    /\ pingPc' = [pingPc EXCEPT ![c] = IF alive[c] THEN "send" ELSE "exited"]
    /\ UNCHANGED <<regVars, srvVars, setupVars, lifeVars, events, outVars, inVars,
                   errLog, ackVars, cliVars, bcVars, lockVars>>

\* c.sendOut(protocol.PingMessage)
PingSend(c) ==
    /\ pingPc[c] = "send"
    /\ sendOut(c, "PING")
    /\ pingPc' = [pingPc EXCEPT ![c] = "select"]
    /\ UNCHANGED <<regVars, srvVars, setupVars, lifeVars, events, outPc, outErr,
                   wlog, nEmits, inVars, nPings, errLog, ackVars, cliVars,
                   bcVars, lockVars>>

\* ------------------------------------------------------- rate limiter
\* acquire with a limiter one slot too large
acquireOffByOne(c) == rl[c] <= limit

\* limiter.acquire: a non-blocking send on a channel of capacity limit
acquire(c) == rl[c] < limit

\* work() calls processIncomingMessage for frame k
HStart(c, k) == handled' = [handled EXCEPT ![c] = @ \cup {k}]

\* a dispatch task spawned without c.server.inc()
SpawnNoInc(c, k) ==
    /\ UNCHANGED count
    /\ tasks' = [tasks EXCEPT ![c] = MapPut(@, k, "run")]
    /\ HStart(c, k)

\* go func() { ...; work() }(): the dispatch task starts the handler
Spawn(c, k) ==
    /\ inc
    /\ tasks' = [tasks EXCEPT ![c] = MapPut(@, k, "run")]
    /\ HStart(c, k)

\* newRateLimiter spawning for limit == 0 as it does for limit < 0
rateLimiterNoInline(c, k) ==
    IF limit <= 0
    THEN /\ Spawn(c, k)
         /\ UNCHANGED <<rl, inPc, errLog>>
    ELSE IF acquire(c)
    THEN /\ rl' = [rl EXCEPT ![c] = @ + 1]
         /\ Spawn(c, k)
         /\ UNCHANGED <<inPc, errLog>>
    ELSE /\ ehCall(c, "ratelimit", k)
         /\ UNCHANGED <<rl, tasks, count, handled, inPc>>

\* the rateLimiter returned by newRateLimiter, applied to frame k's work
rateLimiter(c, k) ==
    IF limit < 0
    THEN /\ Spawn(c, k)
         /\ UNCHANGED <<rl, inPc, errLog>>
    ELSE IF limit = 0
    THEN /\ HStart(c, k)
         /\ inPc' = [inPc EXCEPT ![c] = "handling"]
         /\ UNCHANGED <<rl, tasks, count, errLog>>
    ELSE IF acquire(c)
    THEN /\ rl' = [rl EXCEPT ![c] = @ + 1]
         /\ Spawn(c, k)
         /\ UNCHANGED <<inPc, errLog>>
    ELSE /\ ehCall(c, "ratelimit", k)
         /\ UNCHANGED <<rl, tasks, count, handled, inPc>>

\* any other frame: c.rl(func() { m.processIncomingMessage(c, msg) })
InDispatch(c) ==
    /\ CanRead(c)
    /\ nRead' = [nRead EXCEPT ![c] = @ + 1]
    /\ rateLimiter(c, nRead[c] + 1)
    /\ UNCHANGED <<regVars, done, limit, shPc, shRes, setupVars, lifeVars, events,
                   outVars, inErr, pingVars, ackVars, cliVars, bcVars, lockVars>>

\* limit == 0: the handler returns to the in-loop
InHandlerRet(c) ==
    /\ inPc[c] = "handling"
    /\ UNCHANGED handled
    /\ inPc' = [inPc EXCEPT ![c] = "read"]
    /\ UNCHANGED <<regVars, srvVars, setupVars, lifeVars, events, outVars, inErr,
                   nRead, rl, tasks, errLog, pingVars, ackVars, cliVars, bcVars,
                   lockVars>>

\* closeChannel has returned: inLoop returns its error to startLoop
InExit(c) ==
    /\ inPc[c] = "closing" /\ Closed(c, "in")
    /\ ehCall(c, inErr[c], 0)
    /\ dec
    /\ inPc' = [inPc EXCEPT ![c] = "exited"]
    /\ UNCHANGED <<regVars, done, limit, shPc, shRes, setupVars, lifeVars, events,
                   outVars, inErr, nRead, rl, tasks, handled, pingVars, ackVars,
                   cliVars, bcVars, lockVars>>

\* a dispatch task: work() returns
TaskReturn(c, k) ==
    /\ MapHas(tasks[c], k) /\ tasks[c][k] = "run"
    /\ UNCHANGED handled
    /\ tasks' = [tasks EXCEPT ![c][k] = IF limit > 0 THEN "rel" ELSE "dec"]
    /\ UNCHANGED <<regVars, srvVars, setupVars, lifeVars, events, outVars, inPc,
                   inErr, nRead, rl, errLog, pingVars, ackVars, cliVars, bcVars,
                   lockVars>>

\* a dispatch task whose deferred function does not call rl.release()
TaskReleaseSkipped(c, k) ==
    /\ MapHas(tasks[c], k) /\ tasks[c][k] = "rel"
    /\ tasks' = [tasks EXCEPT ![c][k] = "dec"]
    /\ UNCHANGED <<regVars, srvVars, setupVars, lifeVars, events, outVars, inPc,
                   inErr, nRead, rl, handled, errLog, pingVars, ackVars, cliVars,
                   bcVars, lockVars>>

\* a dispatch task: the deferred rl.release()
TaskRelease(c, k) ==
    /\ MapHas(tasks[c], k) /\ tasks[c][k] = "rel"
    /\ rl' = [rl EXCEPT ![c] = @ - 1]
    /\ tasks' = [tasks EXCEPT ![c][k] = "dec"]
    /\ UNCHANGED <<regVars, srvVars, setupVars, lifeVars, events, outVars, inPc,
                   inErr, nRead, handled, errLog, pingVars, ackVars, cliVars,
                   bcVars, lockVars>>

\* a dispatch task: the deferred c.server.dec(), and the task is gone
TaskDec(c, k) ==
    /\ MapHas(tasks[c], k) /\ tasks[c][k] = "dec"
    /\ dec
    /\ tasks' = [tasks EXCEPT ![c] = MapDel(@, k)]
    /\ UNCHANGED <<regVars, done, limit, shPc, shRes, setupVars, lifeVars, events,
                   outVars, inPc, inErr, nRead, rl, handled, errLog, pingVars,
                   ackVars, cliVars, bcVars, lockVars>>

\* ---------------------------------------------------------------- Emit
\* Channel.Emit from a user task: the EMIT frame is safe-sent
Emit(c) ==
    /\ c \in active /\ Exposed(c)
    /\ nEmits[c] < MaxEmits
    /\ nEmits' = [nEmits EXCEPT ![c] = @ + 1]
    /\ sendOut(c, "EMIT")
    /\ UNCHANGED <<regVars, srvVars, setupVars, lifeVars, events, outPc, outErr,
                   wlog, inVars, errLog, pingVars, ackVars, cliVars, bcVars,
                   lockVars>>

\* ------------------------------------------------------------ Shutdown
\* Server.NumGoroutine
NumGoroutine == count

\* the select that closes s.done unless it is closed
ShutdownBegin ==
    /\ shPc = "idle"
    /\ done' = TRUE
    /\ shPc' = "poll"
    /\ UNCHANGED <<regVars, count, limit, shRes, setupVars, lifeVars, events,
                   outVars, inVars, errLog, pingVars, ackVars, cliVars, bcVars,
                   lockVars>>

\* the poll's test letting one task through
DrainedOffByOne == NumGoroutine <= 1

\* the poll's test on a tick of the ticker
Drained == NumGoroutine <= 0

\* case <-ticker.C with the counter drained: Shutdown returns nil
ShutdownTick ==
    /\ shPc = "poll"
    /\ Drained
    /\ shPc' = "nil"
    /\ shRes' = NumGoroutine
    /\ UNCHANGED <<regVars, done, count, limit, setupVars, lifeVars, events,
                   outVars, inVars, errLog, pingVars, ackVars, cliVars, bcVars,
                   lockVars>>

\* case <-ctx.Done(): Shutdown returns the error with the residual count
ShutdownDeadline ==
    /\ shPc = "poll"
    /\ shPc' = "err"
    /\ shRes' = NumGoroutine
    /\ UNCHANGED <<regVars, done, count, limit, setupVars, lifeVars, events,
                   outVars, inVars, errLog, pingVars, ackVars, cliVars, bcVars,
                   lockVars>>

\* --------------------------------------------------- specifications
\* the state NewServer leaves, with limit lim, before the sessions in act
InitWith(act, lims) ==
    /\ channels = EmptyMap /\ rooms = EmptyMap /\ sids = EmptyMap
    /\ done = FALSE /\ count = 0 /\ limit \in lims
    /\ shPc = "idle" /\ shRes = 0
    /\ active = act
    /\ setupPc = [c \in Chans |-> "new"]
    /\ hdrSid = [c \in Chans |-> 0]
    /\ alive = [c \in Chans |-> FALSE]
    /\ aliveC = [c \in Chans |-> FALSE]
    /\ connCloses = [c \in Chans |-> 0]
    /\ closer = [c \in Chans |-> "none"]
    /\ discPc = [c \in Chans |-> "idle"]
    /\ events = [c \in Chans |-> <<>>]
    /\ out = [c \in Chans |-> <<>>]
    /\ nEnq = [c \in Chans |-> 0]
    /\ outPc = [c \in Chans |-> "idle"]
    /\ outErr = [c \in Chans |-> "none"]
    /\ wlog = [c \in Chans |-> <<>>]
    /\ nEmits = [c \in Chans |-> 0]
    /\ inPc = [c \in Chans |-> "idle"]
    /\ inErr = [c \in Chans |-> "none"]
    /\ nRead = [c \in Chans |-> 0]
    /\ rl = [c \in Chans |-> 0]
    /\ tasks = [c \in Chans |-> EmptyMap]
    /\ handled = [c \in Chans |-> {}]
    /\ pingPc = [c \in Chans |-> "idle"]
    /\ nPings = [c \in Chans |-> 0]
    /\ msgs = [c \in Chans |-> EmptyMap]
    /\ calls = [c \in Chans |-> EmptyMap]
    /\ ackOut = [c \in Chans |-> <<>>]
    /\ bcPc = "idle" /\ bcRoom = 1 /\ bcTodo = {}
    /\ emitting = [c \in Chans |-> 0]
    /\ clAlive = FALSE /\ clOut = 0 /\ clConn = 0
    /\ chans = [g \in Gens |-> <<>>]
    /\ connClosed = {}
    /\ clPc = EmptyMap
    /\ held = EmptyMap
    /\ nRedials = 0
    /\ clRead = [g \in Gens |-> 0]
    /\ clPings = [g \in Gens |-> 0]
    /\ lkPc = [t \in LockTasks |-> LkIdle]
    /\ lkHeld = {}
    /\ errLog = [c \in Chans |-> <<>>]

\* session setup, closure and the user's calls
SetupStep(c) ==
    \/ SetupEventLoop(c) \/ SendOpen1(c) \/ SendOpen2(c) \/ StartInLoop(c)
    \/ SetupOnConnection(c) \/ SetupConnHandler(c)

DiscStep(c) == DiscCleanRooms(c) \/ DiscCleanSid(c) \/ DiscHandler(c)

OutStep(c) ==
    \/ OutCheck(c) \/ OutSelectDone(c) \/ OutSelectAlive(c) \/ OutSelectMsg(c)
    \/ (\E ok \in BOOLEAN : OutWriteRet(c, ok)) \/ OutExit(c)

InStep(c) ==
    \/ InReadErr(c) \/ InDecodeErr(c, "decode")
    \/ (\E s \in PeerSids \cup {hdrSid[c]} : InOpen(c, s) \/ InOpenErr(c, s))
    \/ InConnHandler(c)
    \/ InPing(c) \/ InPong(c) \/ InPongFrame(c)
    \/ InDispatch(c) \/ InHandlerRet(c) \/ InExit(c)

TaskStep(c) ==
    \E k \in 1..MaxFrames : TaskReturn(c, k) \/ TaskRelease(c, k) \/ TaskDec(c, k)

ShutdownStep == ShutdownBegin \/ ShutdownTick \/ ShutdownDeadline

\* one session's queue and writer: setup, the out-loop, closure from every
\* task, user emits; the peer sends PING and PONG frames or fails
Init == InitWith(EngineChans, {0})

Next ==
    \/ \E c \in EngineChans :
         \/ SetupStep(c) \/ DiscStep(c) \/ OutStep(c)
         \/ InReadErr(c) \/ InPing(c) \/ InPong(c) \/ InPongFrame(c) \/ InExit(c)
         \/ Close(c) \/ Emit(c)
    \/ ShutdownBegin

Spec == Init /\ [][Next]_vars

\* one session's dispatch: setup, both loops, the rate limiter and its
\* tasks under every limit, Shutdown; the peer sends frames for handlers
InitDispatch == InitWith(EngineChans, Limits)

NextDispatch ==
    \/ \E c \in EngineChans :
         \/ SetupStep(c) \/ DiscStep(c) \/ OutStep(c)
         \/ InReadErr(c) \/ InDispatch(c) \/ InHandlerRet(c) \/ InExit(c)
         \/ TaskStep(c)
    \/ ShutdownStep

SpecDispatch == InitDispatch /\ [][NextDispatch]_vars

\* the registry of several sessions, with the user's Join, Leave and Close,
\* which are called from the OnConnection handler on; the handler's return
\* changes nothing that these read or write
InitRegistry == InitWith(Chans, {0})

NextRegistry ==
    \E c \in Chans :
        \/ SetupEventLoop(c) \/ SendOpen1(c) \/ SendOpen2(c) \/ StartInLoop(c)
        \/ SetupOnConnection(c)
        \/ DiscStep(c) \/ Close(c)
        \/ \E r \in Rooms : Join(c, r) \/ Leave(c, r)

SpecRegistry == InitRegistry /\ [][NextRegistry]_vars

\* GetMessage on a conn that closeChannel has closed: it fails
InReadClosed(c) == connCloses[c] > 0 /\ InReadErr(c)

\* the steps of SetupEventLoop once a connection was accepted
SetupRun(c) ==
    \/ SendOpen1(c) \/ SendOpen2(c) \/ StartInLoop(c)
    \/ SetupOnConnection(c) \/ SetupConnHandler(c)

\* the drain of one session whose user tasks are idle: Shutdown polls under
\* a deadline that does not elapse. Every task that can step does: a safe-send or a
\* select takes a ready case, WriteMessage returns within its send timeout,
\* GetMessage fails on a closed conn, handlers return, the ticker ticks.
NextDrain ==
    \/ \E c \in EngineChans :
         \/ SetupStep(c) \/ DiscStep(c) \/ OutStep(c)
         \/ InReadErr(c) \/ InPing(c) \/ InPong(c) \/ InPongFrame(c) \/ InExit(c)
    \/ ShutdownBegin \/ ShutdownTick

FairDrain ==
    /\ \A c \in EngineChans :
         /\ WF_vars(SetupRun(c))
         /\ WF_vars(DiscStep(c))
         /\ WF_vars(OutStep(c))
         /\ WF_vars(InReadClosed(c))
         /\ WF_vars(InPong(c))
         /\ WF_vars(InExit(c))
    /\ WF_vars(ShutdownTick)

SpecDrain == Init /\ [][NextDrain]_vars /\ FairDrain

\* ------------------------------------------------------------- claims
\* occurrences of event e among the lifecycle events of c
Raised(c, e) == Cardinality({i \in DOMAIN events[c] : events[c][i] = e})

\* dispatches of c running user code
Running(c) ==
    Cardinality({k \in DOMAIN tasks[c] : tasks[c][k] = "run"})
    + (IF inPc[c] = "handling" THEN 1 ELSE 0)

\* C1: membership duality. In every state of the registry under Join, Leave
\* and the disconnect hook, c is in channels[r] iff r is in rooms[c].
C1_MembershipDuality ==
    \A c \in Chans, r \in Rooms :
        (MapHas(channels, r) /\ c \in channels[r])
            <=> (MapHas(rooms, c) /\ r \in rooms[c])

\* a session is in a room it did not leave while another session, once
\* cleaned up by its disconnect hook, has no rooms entry
C1_Witness ==
    \E c, d \in Chans, r \in Rooms :
        /\ c # d /\ MapHas(channels, r) /\ c \in channels[r]
        /\ MapHas(rooms, c) /\ rooms[c] # Rooms
        /\ discPc[d] = "done" /\ ~MapHas(rooms, d)

\* Server.AmountOfRooms
AmountOfRooms == Cardinality(DOMAIN channels)

\* C2: no empty rooms. Every key of channels maps to a non-empty set, so
\* AmountOfRooms counts exactly the rooms with at least one member.
C2_NoEmptyRooms ==
    /\ \A r \in DOMAIN channels : channels[r] # {}
    /\ AmountOfRooms =
         Cardinality({r \in Rooms : \E c \in Chans : MapHas(rooms, c) /\ r \in rooms[c]})

\* a session joined rooms and left them all: its rooms entry is empty and
\* channels has no key left
C2_Witness ==
    \E c \in Chans : MapHas(rooms, c) /\ rooms[c] = {} /\ DOMAIN channels = {}

\* C3: close idempotence. Whatever closeChannel invocations a session has
\* seen, from whatever tasks, conn.Close() was called once and
\* OnDisconnection raised once if the channel is closed, and never otherwise.
C3_CloseIdempotence ==
    \A c \in Chans :
        /\ connCloses[c] = (IF setupPc[c] # "new" /\ ~alive[c] THEN 1 ELSE 0)
        /\ Raised(c, "disc") = (IF connCloses[c] = 1 /\ discPc[c] # "raise" THEN 1 ELSE 0)
        /\ closer[c] = "none" <=> connCloses[c] = 0

\* the in-loop closed the channel, and the out-loop has invoked closeChannel
\* after it and returned with its own error
C3_Witness ==
    \E c \in Chans :
        /\ closer[c] = "in" /\ discPc[c] = "done"
        /\ inPc[c] = "exited" /\ outPc[c] = "exited"
        /\ \E i \in DOMAIN errLog[c] : errLog[c][i].e \in {"overflood", "write"}

\* C4: after the close of a channel the out-loop starts no WriteMessage.
C4_NoWriteAfterClose ==
    \A c \in Chans : \A i \in DOMAIN wlog[c] : ~wlog[c][i].closed

\* C5: outbound FIFO. The frames passed to WriteMessage are frames that were
\* enqueued, in the order of their enqueue, none of them twice.
C5_OutboundFIFO ==
    \A c \in Chans :
        /\ \A i \in DOMAIN wlog[c] : wlog[c][i].n \in 1..nEnq[c]
        /\ \A i, j \in DOMAIN wlog[c] : i < j => wlog[c][i].n < wlog[c][j].n
        /\ \A i \in DOMAIN wlog[c] : \A j \in DOMAIN out[c] : wlog[c][i].n < out[c][j].n
        /\ \A i, j \in DOMAIN out[c] : i < j => out[c][i].n < out[c][j].n

\* the open sequence and a later frame of another sender were written, and a
\* frame is still queued
C5_Witness ==
    \E c \in Chans :
        /\ Len(wlog[c]) >= 3 /\ wlog[c][3].k \in {"PONG", "EMIT"}
        /\ out[c] # <<>>

\* C6: once Shutdown has returned nil the task counter is zero.
C6_ZeroAfterShutdown == shPc = "nil" => NumGoroutine = 0

\* a user callback of c is running on a task the engine counts: a handler
\* dispatched by the in-loop, or a lifecycle handler called from a loop
EngineCallback(c) ==
    \/ Running(c) > 0
    \/ inPc[c] = "connHandler"
    \/ discPc[c] = "handler" /\ closer[c] \in {"in", "out"}

\* a user callback of c is running on any task
UserCallback(c) ==
    \/ EngineCallback(c)
    \/ setupPc[c] = "connHandler"
    \/ discPc[c] = "handler"

\* C8 as stated: Shutdown returning while any user callback runs returns
\* the error, with a count of at least 1.
C8_AnyCallback ==
    [][ (shPc = "poll" /\ shPc' # "poll" /\ \E c \in Chans : UserCallback(c)) =>
          (shPc' = "err" /\ shRes' >= 1) ]_vars

\* C8, amended: Shutdown returns nil only on a tick that observes the counter
\* at zero or below; when it returns while a user callback is running on a
\* task the engine counts it returns the error, carrying a count of at least
\* 1; its steps leave every running callback as it is.
C8_ShutdownWithCallback ==
    [][ (shPc = "poll" /\ shPc' # "poll") =>
          /\ shPc' = "nil" => (NumGoroutine <= 0 /\ shRes' <= 0)
          /\ (\E c \in Chans : EngineCallback(c)) => (shPc' = "err" /\ shRes' >= 1)
          /\ UNCHANGED <<tasks, inPc, handled, setupPc, discPc>> ]_vars

\* Shutdown has returned the error with a dispatched callback running
C8_Witness ==
    /\ shPc = "err" /\ shRes >= 1
    /\ \E c \in Chans : Running(c) > 0

\* frames of c dropped by the rate limiter
Dropped(c) == {i \in DOMAIN errLog[c] : errLog[c][i].e = "ratelimit"}

\* C9: bounded rate limiting. With limit > 0 at most limit dispatches of a
\* channel run user code; a frame read while limit of them run is dropped:
\* its handler never starts, the error handler gets ErrRateLimiting once for
\* it, the running dispatches and the channel are left as they are.
C9_BoundedRateLimit ==
    /\ [](limit > 0 =>
            \A c \in Chans :
                /\ Running(c) <= limit
                /\ \A i \in Dropped(c) :
                     /\ errLog[c][i].k \notin handled[c]
                     /\ \A j \in Dropped(c) : errLog[c][j].k = errLog[c][i].k => j = i)
    /\ [][ \A c \in Chans :
             (limit > 0 /\ nRead'[c] = nRead[c] + 1 /\ Running(c) = limit) =>
                /\ errLog'[c] = Append(errLog[c], [e |-> "ratelimit", k |-> nRead'[c]])
                /\ UNCHANGED <<tasks, handled, alive, aliveC, inPc>> ]_vars

\* frame 2 was dropped while frame 1's handler ran, that handler has
\* returned and the channel is alive
C9_Witness ==
    \E c \in Chans :
        /\ limit > 0 /\ alive[c]
        /\ \E i \in Dropped(c) : errLog[c][i].k = 2
        /\ 1 \in handled[c] /\ ~MapHas(tasks[c], 1)

\* C10: with limit == 0 the handlers run inline and in arrival order: no
\* dispatch task exists, every frame read has had its handler called, a
\* handler starts only from the reading in-loop, for the frame just read, and
\* the in-loop reads no frame and starts no handler while a handler runs.
C10_InlineOrder ==
    /\ [](limit = 0 =>
            \A c \in Chans :
                /\ DOMAIN tasks[c] = {}
                /\ handled[c] = 1..nRead[c])
    /\ [][ \A c \in Chans :
             limit = 0 =>
                /\ inPc[c] = "handling" =>
                     (nRead'[c] = nRead[c] /\ handled'[c] = handled[c])
                /\ handled'[c] # handled[c] =>
                     /\ inPc[c] = "read" /\ inPc'[c] = "handling"
                     /\ handled'[c] = handled[c] \cup {nRead[c] + 1}
                     /\ \A j \in handled[c] : j < nRead[c] + 1 ]_vars

\* two handlers have run to their end, one after the other
C10_Witness ==
    \E c \in Chans : limit = 0 /\ handled[c] = {1, 2} /\ inPc[c] = "read"

\* session c has drained: closed with one OnDisconnection, both loops gone
SessionDrained(c) ==
    /\ ~alive[c] /\ aliveC[c] /\ connCloses[c] = 1
    /\ Raised(c, "disc") = 1 /\ discPc[c] = "done"
    /\ outPc[c] = "exited" /\ inPc[c] = "exited"

\* C7: shutdown drain. With a session connected, once Shutdown has signaled
\* done, the session closes with one OnDisconnection, its loops exit, the
\* counter reaches zero and Shutdown returns nil.
C7_ShutdownDrain ==
    (done /\ \E c \in EngineChans : setupPc[c] # "new")
        ~> (/\ shPc = "nil" /\ NumGoroutine = 0
            /\ \A c \in EngineChans : setupPc[c] # "new" => SessionDrained(c))

\* Shutdown has returned nil for a session that was connected, alive and
\* served when its out-loop saw done
C7_Witness ==
    /\ shPc = "nil" /\ NumGoroutine = 0
    /\ \E c \in EngineChans :
         setupPc[c] = "served" /\ SessionDrained(c) /\ closer[c] = "out"
         /\ Len(wlog[c]) >= 2 /\ nRead[c] > 0

\* the stalled writer: every task of the session that can step does, except
\* that WriteMessage need not return
FairStalled ==
    \A c \in EngineChans :
        /\ WF_vars(SetupRun(c))
        /\ WF_vars(DiscStep(c))
        /\ WF_vars(OutCheck(c))
        /\ WF_vars(OutSelectDone(c) \/ OutSelectAlive(c) \/ OutSelectMsg(c))
        /\ WF_vars(OutExit(c))
        /\ WF_vars(InReadClosed(c))
        /\ WF_vars(InPong(c))
        /\ WF_vars(InExit(c))

SpecStalled == Init /\ [][Next]_vars /\ FairStalled

\* the out-loop has returned ErrorSocketOverflood to the error handler
Overflooded(c) == \E i \in DOMAIN errLog[c] : errLog[c][i].e = "overflood"

\* C11: overflood. A live session whose writer is inside WriteMessage while
\* the other tasks have filled the outbound queue eventually closes with
\* ErrorSocketOverflood at the error handler and one OnDisconnection.
C11_Overflood ==
    \A c \in EngineChans :
        (alive[c] /\ outPc[c] = "write" /\ Len(out[c]) = QueueBufferSize)
            ~> (~alive[c] /\ Overflooded(c) /\ Raised(c, "disc") = 1)

PingStep(c) == PingSelectDone(c) \/ PingSelectAlive(c) \/ PingTick(c) \/ PingSend(c)

\* one session with a pinger: setup, both loops and the pinger send on a
\* queue that a writer inside WriteMessage does not empty; the peer sends
\* PING frames or fails, Shutdown signals done
NextSafeSend ==
    \/ \E c \in EngineChans :
         \/ SetupStep(c) \/ DiscStep(c) \/ OutStep(c)
         \/ InReadErr(c) \/ InPing(c) \/ InPong(c) \/ InExit(c)
         \/ GoPinger(c) \/ PingStep(c)
    \/ ShutdownBegin

SpecSafeSend == Init /\ [][NextSafeSend]_vars

\* C12: safe-send never blocks forever. In every state where done or aliveC
\* is signaled, every engine task standing at a sendOut (the open sequence,
\* the in-loop's PONG, the pinger's PING) can take its step whatever the
\* queue holds: none remains blocked on the queue.
C12_SafeSend ==
    \A c \in EngineChans :
        (done \/ aliveC[c]) =>
            /\ setupPc[c] = "open1" => ENABLED SendOpen1(c)
            /\ setupPc[c] = "open2" => ENABLED SendOpen2(c)
            /\ inPc[c] = "pong" => ENABLED InPong(c)
            /\ pingPc[c] = "send" => ENABLED PingSend(c)

\* the queue is full behind a writer inside WriteMessage, the signal has
\* come, and the in-loop and the pinger have left their sendOut without
\* their PONG and PING frames
C12_Witness ==
    \E c \in EngineChans :
        /\ (done \/ aliveC[c]) /\ outPc[c] = "write"
        /\ Len(out[c]) = QueueBufferSize
        /\ nRead[c] = 2 /\ inPc[c] # "pong"
        /\ nPings[c] = 1 /\ pingPc[c] # "send"
        /\ nEnq[c] = QueueBufferSize + 1

\* C13: a closed channel rejects enqueues. Once aliveC is signaled no step
\* adds a frame to the outbound queue.
C13_ClosedRejects ==
    [][ \A c \in Chans : aliveC[c] => Len(out'[c]) <= Len(out[c]) ]_vars

\* c is a member of room r, on either side of the registry
Member(c, r) ==
    \/ MapHas(channels, r) /\ c \in channels[r]
    \/ MapHas(rooms, c) /\ r \in rooms[c]

\* C14: cleanup ordering. No state has a channel that is a member of a room
\* while its sid is absent from sids.
C14_NoMemberWithoutSid ==
    \A c \in Chans : (\E r \in Rooms : Member(c, r)) => MapHas(sids, Id(c))


\* ------------------------------------------- processIncomingMessage
\* methods.messageHandlers after the user's On calls: a handler with an
\* argument and a return value, one with an argument and no return value,
\* one with a return value whose argument is the empty struct
messageHandlers ==
    [ret    |-> [Out |-> TRUE,  ArgsPresent |-> TRUE],
     void   |-> [Out |-> FALSE, ArgsPresent |-> TRUE],
     noargs |-> [Out |-> TRUE,  ArgsPresent |-> FALSE]]

\* methods.findMethod
findMethod(method) == method \in DOMAIN messageHandlers

\* the EMIT and ACK-REQ messages a peer may send: "none" has no handler, and
\* Args either decodes into the handler's parameter type or does not
Messages ==
    [Type : {"EMIT"}, Method : DOMAIN messageHandlers \cup {"none"},
     AckId : {0}, Args : {"ok", "bad"}]
    \cup
    [Type : {"ACKREQ"}, Method : DOMAIN messageHandlers \cup {"none"},
     AckId : 1..MaxAckId, Args : {"ok", "bad"}]

\* caller.callFunc: the handler runs on frame k; it is given the decoded
\* argument, or the empty struct
callFunc(c, k, msg) ==
    calls' = [calls EXCEPT ![c] = MapPut(@, k,
                 [m |-> msg.Method,
                  a |-> IF messageHandlers[msg.Method].ArgsPresent
                        THEN msg.Args ELSE "empty"])]

\* what the handler of a method returns
Result(method) == <<"result", method>>

\* processIncomingMessage for an EMIT or an ACK-REQ, run inline by the in-loop
\* (limit == 0), up to the handler's return
processIncomingMessage(c, msg) ==
    /\ inPc[c] = "handling"
    /\ ~MapHas(msgs[c], nRead[c])
    /\ msgs' = [msgs EXCEPT ![c] = MapPut(@, nRead[c], msg)]
    /\ IF ~findMethod(msg.Method)
       THEN /\ ehCall(c, "nomethod", nRead[c])
            /\ inPc' = [inPc EXCEPT ![c] = "read"]
            /\ UNCHANGED calls
       ELSE IF msg.Type = "ACKREQ" /\ ~messageHandlers[msg.Method].Out
       THEN /\ ehCall(c, "nomethod", nRead[c])
            /\ inPc' = [inPc EXCEPT ![c] = "read"]
            /\ UNCHANGED calls
       ELSE IF messageHandlers[msg.Method].ArgsPresent /\ msg.Args = "bad"
       THEN /\ ehCall(c, "args", nRead[c])
            /\ inPc' = [inPc EXCEPT ![c] = "read"]
            /\ UNCHANGED calls
       ELSE /\ callFunc(c, nRead[c], msg)
            /\ inPc' = [inPc EXCEPT ![c] =
                           IF msg.Type = "ACKREQ" THEN "ack" ELSE "read"]
            /\ UNCHANGED errLog
    /\ UNCHANGED <<regVars, srvVars, setupVars, lifeVars, events, outVars, inErr,
                   nRead, rl, tasks, handled, pingVars, ackOut, cliVars, bcVars,
                   lockVars>>

\* send(ack, c, result): the result is encoded as the Args of the ACK-RESP,
\* which is safe-sent; an encoding error goes to the error handler
AckSend(c) ==
    /\ inPc[c] = "ack"
    /\ \E enc \in BOOLEAN :
         IF enc
         THEN /\ sendOut(c, "ACKRESP")
              /\ ackOut' = [ackOut EXCEPT ![c] =
                     IF nEnq'[c] = nEnq[c] THEN @
                     ELSE Append(@, [AckId |-> msgs[c][nRead[c]].AckId,
                                     Args |-> Result(msgs[c][nRead[c]].Method),
                                     k |-> nRead[c]])]
              /\ UNCHANGED errLog
         ELSE /\ ehCall(c, "encode", nRead[c])
              /\ UNCHANGED <<out, nEnq, ackOut>>
    /\ inPc' = [inPc EXCEPT ![c] = "read"]
    /\ UNCHANGED <<regVars, srvVars, setupVars, lifeVars, events, outPc, outErr,
                   wlog, nEmits, inErr, nRead, rl, tasks, handled, pingVars,
                   msgs, calls, cliVars, bcVars, lockVars>>

\* one session of a server that is not shut down; its peer sends EMIT and
\* ACK-REQ messages, dispatched inline
NextAck ==
    \E c \in EngineChans :
        \/ SetupStep(c) \/ DiscStep(c)
        \/ OutCheck(c) \/ OutSelectAlive(c) \/ OutSelectMsg(c)
        \/ (\E ok \in BOOLEAN : OutWriteRet(c, ok)) \/ OutExit(c)
        \/ InReadErr(c) \/ InDispatch(c) \/ InExit(c)
        \/ (\E msg \in Messages : processIncomingMessage(c, msg))
        \/ AckSend(c)

SpecAck == Init /\ [][NextAck]_vars

\* the ACK-RESP messages enqueued for frame k of c
AcksOf(c, k) == {i \in DOMAIN ackOut[c] : ackOut[c][i].k = k}

\* an EMIT of msg's event and argument calls the handler
EmitCalls(msg) ==
    /\ findMethod(msg.Method)
    /\ messageHandlers[msg.Method].ArgsPresent => msg.Args = "ok"

\* C15: ACK-REQ handling. Once an ACK-REQ whose event has a registered
\* handler has been processed, the handler was invoked exactly when an EMIT
\* of that event invokes it; after the handler's return exactly one ACK-RESP
\* with the same AckId and the handler's return value was enqueued for the
\* frame; and no ACK-RESP carries an AckId other than its request's.
C15_AckRequest ==
    \A c \in EngineChans :
        /\ \A k \in DOMAIN msgs[c] :
             (msgs[c][k].Type = "ACKREQ" /\ findMethod(msgs[c][k].Method))
             => (MapHas(calls[c], k) <=> EmitCalls(msgs[c][k]))
        /\ \A k \in DOMAIN calls[c] :
             (msgs[c][k].Type = "ACKREQ" /\ ~(inPc[c] = "ack" /\ nRead[c] = k))
             => /\ Cardinality(AcksOf(c, k)) = 1
                /\ \A i \in AcksOf(c, k) :
                     ackOut[c][i].Args = Result(msgs[c][k].Method)
        /\ \A i \in DOMAIN ackOut[c] :
             ackOut[c][i].AckId = msgs[c][ackOut[c][i].k].AckId

\* -------------------------------------------------------------- client
\* the server's state, which a client's tasks leave alone
engineVars == <<regVars, srvVars, setupVars, lifeVars, events, outVars, inVars,
                pingVars, errLog, ackVars, bcVars, lockVars>>

\* the three tasks started by Dial (g = 0) or by Redial g
TasksOf(g) == {"in", "out", "ping"} \X {g}

\* the position of task t; a task that was not started has none
PcOf(t) == IF t \in DOMAIN clPc THEN clPc[t] ELSE "none"

\* Dial with reconnect: initChannel, Connect, and the three tasks are started
Dial ==
    /\ PcOf(<<"in", 0>>) = "none"
    /\ clAlive' = TRUE
    /\ clPc' = [t \in TasksOf(0) |-> "start"]
    /\ UNCHANGED <<engineVars, clOut, clConn, chans, connClosed, held, nRedials,
                   clRead, clPings>>

\* inLoop: c.conn.GetMessage() is called on the conn c.conn refers to
CliInGet(g) ==
    /\ PcOf(<<"in", g>>) = "start"
    /\ clPc' = [clPc EXCEPT ![<<"in", g>>] = "read"]
    /\ held' = MapPut(held, <<"in", g>>, clConn)
    /\ UNCHANGED <<engineVars, clAlive, clOut, clConn, chans, connClosed,
                   nRedials, clRead, clPings>>

\* inLoop: GetMessage fails (a closed conn, a timeout): closeChannel is called
CliInReadErr(g) ==
    /\ PcOf(<<"in", g>>) = "read"
    /\ clPc' = [clPc EXCEPT ![<<"in", g>>] = "close"]
    /\ UNCHANGED <<engineVars, clAlive, clOut, clConn, chans, connClosed, held,
                   nRedials, clRead, clPings>>

\* inLoop: GetMessage returns a PING frame
CliInPing(g) ==
    /\ PcOf(<<"in", g>>) = "read"
    /\ held[<<"in", g>>] \notin connClosed
    /\ clRead[g] < MaxFrames
    /\ clRead' = [clRead EXCEPT ![g] = @ + 1]
    /\ clPc' = [clPc EXCEPT ![<<"in", g>>] = "pong"]
    /\ UNCHANGED <<engineVars, clAlive, clOut, clConn, chans, connClosed, held,
                   nRedials, clPings>>

\* inLoop: c.out <- protocol.PongMessage
CliInPong(g) ==
    /\ PcOf(<<"in", g>>) = "pong"
    /\ Len(chans[clOut]) < QueueBufferSize
    /\ chans' = [chans EXCEPT ![clOut] = Append(@, "PONG")]
    /\ clPc' = [clPc EXCEPT ![<<"in", g>>] = "start"]
    /\ UNCHANGED <<engineVars, clAlive, clOut, clConn, connClosed, held,
                   nRedials, clRead, clPings>>

\* closeChannel of the client's loops, under aliveLock: a closed channel
\* returns, an alive one closes c.conn and clears alive
CliCloseBegin(t) ==
    /\ PcOf(t) = "close"
    /\ IF clAlive
       THEN /\ connClosed' = connClosed \cup {clConn}
            /\ clAlive' = FALSE
            /\ clPc' = [clPc EXCEPT ![t] = "drain"]
       ELSE /\ clPc' = [clPc EXCEPT ![t] = "exited"]
            /\ UNCHANGED <<connClosed, clAlive>>
    /\ UNCHANGED <<engineVars, clOut, clConn, chans, held, nRedials, clRead,
                   clPings>>

\* closeChannel: c.out is emptied and is given the CloseMessage
CliCloseDrain(t) ==
    /\ PcOf(t) = "drain"
    /\ chans' = [chans EXCEPT ![clOut] = <<"CLOSE">>]
    /\ clPc' = [clPc EXCEPT ![t] = "disc"]
    /\ UNCHANGED <<engineVars, clAlive, clOut, clConn, connClosed, held,
                   nRedials, clRead, clPings>>

\* callLoopEvent(OnDisconnection) runs Dial's handler, Redial: c.initChannel()
RedialInit(t) ==
    /\ PcOf(t) = "disc"
    /\ nRedials < MaxRedials
    /\ nRedials' = nRedials + 1
    /\ clOut' = nRedials + 1
    /\ clAlive' = TRUE
    /\ held' = MapPut(held, t, nRedials + 1)
    /\ clPc' = [clPc EXCEPT ![t] = "connect"]
    /\ UNCHANGED <<engineVars, clConn, chans, connClosed, clRead, clPings>>

\* Redial: c.conn, err = tr.Connect(c.url) returns a conn
RedialConnect(t) ==
    /\ PcOf(t) = "connect"
    /\ clConn' = held[t]
    /\ clPc' = [clPc EXCEPT ![t] = "go"]
    /\ UNCHANGED <<engineVars, clAlive, clOut, chans, connClosed, held,
                   nRedials, clRead, clPings>>

\* Redial: go inLoop, go outLoop, go pinger; the handler and closeChannel
\* return, and the loop that called closeChannel returns
RedialGo(t) ==
    /\ PcOf(t) = "go"
    /\ clPc' = [u \in DOMAIN clPc \cup TasksOf(held[t]) |->
                   IF u = t THEN "exited"
                   ELSE IF u \in TasksOf(held[t]) THEN "start" ELSE clPc[u]]
    /\ UNCHANGED <<engineVars, clAlive, clOut, clConn, chans, connClosed, held,
                   nRedials, clRead, clPings>>

\* outLoop: the overflow test, then msg := <-c.out on the chan c.out refers to
CliOutCheck(g) ==
    /\ PcOf(<<"out", g>>) = "start"
    /\ IF Len(chans[clOut]) >= QueueBufferSize - 1
       THEN /\ clPc' = [clPc EXCEPT ![<<"out", g>>] = "close"]
            /\ UNCHANGED held
       ELSE /\ clPc' = [clPc EXCEPT ![<<"out", g>>] = "recv"]
            /\ held' = MapPut(held, <<"out", g>>, clOut)
    /\ UNCHANGED <<engineVars, clAlive, clOut, clConn, chans, connClosed,
                   nRedials, clRead, clPings>>

\* outLoop: a frame is received; CloseMessage ends the loop, any other frame
\* is passed to c.conn.WriteMessage on the conn c.conn refers to
CliOutRecv(g) ==
    /\ PcOf(<<"out", g>>) = "recv"
    /\ chans[held[<<"out", g>>]] # <<>>
    /\ chans' = [chans EXCEPT ![held[<<"out", g>>]] = Tail(@)]
    /\ IF Head(chans[held[<<"out", g>>]]) = "CLOSE"
       THEN /\ clPc' = [clPc EXCEPT ![<<"out", g>>] = "exited"]
            /\ UNCHANGED held
       ELSE /\ clPc' = [clPc EXCEPT ![<<"out", g>>] =
                           IF clConn \in connClosed THEN "wfail" ELSE "write"]
            /\ held' = MapPut(held, <<"out", g>>, clConn)
    /\ UNCHANGED <<engineVars, clAlive, clOut, clConn, connClosed, nRedials,
                   clRead, clPings>>

\* outLoop: WriteMessage returns; a write that began on an open conn may
\* succeed or fail, one that began on a closed conn fails
CliOutWriteRet(g, ok) ==
    /\ PcOf(<<"out", g>>) \in {"write", "wfail"}
    /\ ok => PcOf(<<"out", g>>) = "write"
    /\ clPc' = [clPc EXCEPT ![<<"out", g>>] = IF ok THEN "start" ELSE "close"]
    /\ UNCHANGED <<engineVars, clAlive, clOut, clConn, chans, connClosed, held,
                   nRedials, clRead, clPings>>

\* pinger: time.Sleep(interval) is over; a channel that is not alive ends it
CliPingWake(g) ==
    /\ PcOf(<<"ping", g>>) = "start"
    /\ clPings[g] < MaxPings
    /\ clPings' = [clPings EXCEPT ![g] = @ + 1]
    /\ clPc' = [clPc EXCEPT ![<<"ping", g>>] =
                   IF clAlive THEN "send" ELSE "exited"]
    /\ UNCHANGED <<engineVars, clAlive, clOut, clConn, chans, connClosed, held,
                   nRedials, clRead>>

\* pinger: c.out <- protocol.PingMessage
CliPingSend(g) ==
    /\ PcOf(<<"ping", g>>) = "send"
    /\ Len(chans[clOut]) < QueueBufferSize
    /\ chans' = [chans EXCEPT ![clOut] = Append(@, "PING")]
    /\ clPc' = [clPc EXCEPT ![<<"ping", g>>] = "start"]
    /\ UNCHANGED <<engineVars, clAlive, clOut, clConn, connClosed, held,
                   nRedials, clRead, clPings>>

\* a client that was dialled with reconnect, and its peer
NextClient ==
    \/ Dial
    \/ \E g \in Gens :
         \/ CliInGet(g) \/ CliInReadErr(g) \/ CliInPing(g) \/ CliInPong(g)
         \/ CliOutCheck(g) \/ CliOutRecv(g)
         \/ (\E ok \in BOOLEAN : CliOutWriteRet(g, ok))
         \/ CliPingWake(g) \/ CliPingSend(g)
    \/ \E t \in ClientTasks :
         \/ CliCloseBegin(t) \/ CliCloseDrain(t)
         \/ RedialInit(t) \/ RedialConnect(t) \/ RedialGo(t)

SpecClient == Init /\ [][NextClient]_vars

\* the tasks of the client inside GetMessage, and inside WriteMessage, of conn k
Readers(k) == {t \in ClientTasks : PcOf(t) = "read" /\ held[t] = k}
Writers(k) ==
    {t \in ClientTasks : PcOf(t) \in {"write", "wfail"} /\ held[t] = k}

RLocked == bcPc = "iter"

\* Server.BroadcastTo: RLock, the lookup of the room, RUnlock if it is missing
BroadcastTo(r) ==
    /\ bcPc = "idle"
    /\ bcRoom' = r
    /\ IF MapHas(channels, r)
       THEN bcPc' = "iter" /\ bcTodo' = channels[r]
       ELSE bcPc' = "done" /\ UNCHANGED bcTodo
    /\ UNCHANGED <<regVars, srvVars, setupVars, lifeVars, events, outVars, inVars,
                   pingVars, errLog, ackVars, emitting, cliVars, lockVars>>

\* the range visiting cn with a go cn.Emit for every channel, alive or not
BroadcastVisitAll(cn) ==
    /\ bcPc = "iter" /\ cn \in bcTodo
    /\ bcTodo' = bcTodo \ {cn}
    /\ emitting' = [emitting EXCEPT ![cn] = @ + 1]
    /\ UNCHANGED <<regVars, srvVars, setupVars, lifeVars, events, outVars, inVars,
                   pingVars, errLog, ackVars, bcPc, bcRoom, cliVars, lockVars>>

\* the range visits cn, in any order: if cn.IsAlive() { go cn.Emit(...) }
BroadcastVisit(cn) ==
    /\ bcPc = "iter" /\ cn \in bcTodo
    /\ bcTodo' = bcTodo \ {cn}
    /\ emitting' = [emitting EXCEPT ![cn] = IF alive[cn] THEN @ + 1 ELSE @]
    /\ UNCHANGED <<regVars, srvVars, setupVars, lifeVars, events, outVars, inVars,
                   pingVars, errLog, ackVars, bcPc, bcRoom, cliVars, lockVars>>

\* the range is over: RUnlock, BroadcastTo returns
BroadcastReturn ==
    /\ bcPc = "iter" /\ bcTodo = {}
    /\ bcPc' = "done"
    /\ UNCHANGED <<regVars, srvVars, setupVars, lifeVars, events, outVars, inVars,
                   pingVars, errLog, ackVars, bcRoom, bcTodo, emitting, cliVars,
                   lockVars>>

\* a task started by go cn.Emit: the EMIT frame is safe-sent, the task ends
EmitTask(cn) ==
    /\ emitting[cn] > 0
    /\ sendOut(cn, "EMIT")
    /\ emitting' = [emitting EXCEPT ![cn] = @ - 1]
    /\ UNCHANGED <<regVars, srvVars, setupVars, lifeVars, events, outPc, outErr,
                   wlog, nEmits, inVars, pingVars, errLog, ackVars, bcPc, bcRoom,
                   bcTodo, cliVars, lockVars>>

\* the sessions and the room of the broadcast specification
BcChans == {1, 2}
BcRooms == {1}

\* two sessions that users join to a room, emit on and close, and one
\* BroadcastTo; Join and the disconnect cleanup wait for channelsLock
InitBroadcast == InitWith(BcChans, {0})

NextBroadcast ==
    \/ \E c \in BcChans :
         \/ SetupStep(c)
         \/ (~RLocked /\ DiscCleanRooms(c)) \/ DiscCleanSid(c) \/ DiscHandler(c)
         \/ Close(c) \/ Emit(c)
         \/ (~RLocked /\ \E r \in BcRooms : Join(c, r))
         \/ BroadcastVisit(c) \/ EmitTask(c)
    \/ (\E r \in BcRooms : BroadcastTo(r))
    \/ BroadcastReturn

SpecBroadcast == InitBroadcast /\ [][NextBroadcast]_vars

\* the range of BroadcastTo visits cn in this step
Visits(cn) == cn \in bcTodo /\ cn \notin bcTodo'

\* C17: BroadcastTo. The range covers the members of the room and nothing
\* else; a visit starts one emit task if the channel is alive at the visit
\* and none if it is closed, and nothing else starts an emit task; every
\* visit and the return are enabled whatever the outbound queues hold; a
\* missing room ends the call at once; no step of BroadcastTo changes the
\* registry.
C17_BroadcastTo ==
    /\ [](/\ RLocked => /\ MapHas(channels, bcRoom)
                        /\ bcTodo \subseteq channels[bcRoom]
                        /\ \A cn \in bcTodo : ENABLED BroadcastVisit(cn)
                        /\ bcTodo = {} => ENABLED BroadcastReturn
          /\ bcPc = "done" => bcTodo = {})
    /\ [][/\ \A cn \in Chans :
               /\ emitting'[cn] =
                      emitting[cn] + (IF Visits(cn) /\ alive[cn] THEN 1 ELSE 0)
                  \/ (emitting'[cn] = emitting[cn] - 1 /\ ~Visits(cn))
          /\ (bcPc = "idle" /\ bcPc' = "iter") => bcTodo' = channels[bcRoom']
          /\ (bcPc = "idle" /\ bcPc' # "idle" /\ ~MapHas(channels, bcRoom'))
             => (bcPc' = "done" /\ emitting' = emitting)
          /\ (bcPc' # bcPc \/ bcTodo' # bcTodo)
             => (channels' = channels /\ rooms' = rooms /\ sids' = sids)
         ]_vars

\* BroadcastTo has returned from a room of two members: one was closed at
\* its visit and has no emit task, the other's emit task waits at a full queue
C17_Witness ==
    /\ bcPc = "done" /\ MapHas(channels, bcRoom)
    /\ \E c1, c2 \in channels[bcRoom] :
         /\ emitting[c1] = 1 /\ Len(out[c1]) = QueueBufferSize /\ alive[c1]
         /\ emitting[c2] = 0 /\ ~alive[c2] /\ nEmits[c2] = 0 /\ Len(out[c2]) = 2

\* the transport read errors the error handler received from c
ReadErrors(c) == {i \in DOMAIN errLog[c] : errLog[c][i].e = "read"}

NextOpen ==
    \/ \E c \in EngineChans :
         SetupStep(c) \/ DiscStep(c) \/ OutStep(c) \/ InStep(c)
    \/ ShutdownBegin

SpecOpen == Init /\ [][NextOpen]_vars

\* C19: OPEN frame handling. An OPEN frame whose header does not decode
\* closes the channel and raises no OnConnection; after it the in-loop reads
\* no frame and OnConnection is raised by SetupEventLoop at most, never by
\* the in-loop; and a frame read by the in-loop
\* raises OnConnection only with the header decoded: no error, no close.
C19_OpenFrame ==
    /\ [][\A c \in EngineChans :
            /\ (inErr[c] # "header" /\ inErr'[c] = "header")
               => /\ ~alive'[c] /\ aliveC'[c]
                  /\ inPc'[c] = "closing"
                  /\ events'[c] = events[c]
            /\ inErr[c] = "header"
               => /\ nRead'[c] = nRead[c]
                  /\ inPc'[c] \in {"closing", "exited"}
                  /\ setupPc'[c] = setupPc[c]
                     => Raised(c, "conn")' = Raised(c, "conn")
            /\ (nRead'[c] # nRead[c] /\ Raised(c, "conn")' # Raised(c, "conn"))
               => /\ inErr'[c] = "none"
                  /\ alive'[c] = alive[c]
                  /\ inPc'[c] = "connHandler"
         ]_vars
    /\ [](\A c \in EngineChans : inErr[c] = "header" => ~alive[c])

\* the in-loop has raised OnConnection for a good OPEN frame, then read an
\* OPEN frame with a bad header, closed the channel and ended
C19_Witness ==
    \E c \in EngineChans :
        /\ inErr[c] = "header" /\ inPc[c] = "exited" /\ closer[c] = "in"
        /\ nRead[c] = 2
        /\ Raised(c, "conn") = 2
        /\ \E i \in DOMAIN errLog[c] : errLog[c][i].e = "header"

\* C20: three tasks per session. While a served session is alive and the
\* server is not shutting down, its in-loop, its out-loop and its pinger
\* are running.
C20_ThreeTasks ==
    \A c \in EngineChans :
        (setupPc[c] = "served" /\ alive[c] /\ ~done)
        => /\ inPc[c] \notin {"idle", "exited"}
           /\ outPc[c] \notin {"idle", "exited"}
           /\ pingPc[c] \notin {"idle", "exited"}

\* -------------------------------------------------------------- locks
\* Server.channelsLock, Server.sidsLock (sync.RWMutex) and each
\* Channel.aliveLock (sync.Mutex)
channelsLock == <<"channelsLock", 0>>
sidsLock == <<"sidsLock", 0>>
aliveLock(c) == <<"aliveLock", c>>

\* the operations a user task calls on a session, and on the server
ChannelOps == {"Join", "Leave", "IsAlive", "closeChannel"}
ServerOps == {"List", "BroadcastTo", "BroadcastToAll"}

\* the Lock or RLock call task t is in: the lock and the mode
Wants(t) ==
    LET p == lkPc[t]
    IN CASE p.pc = "lock" /\ p.op \in {"Join", "Leave", "closeChannel"} ->
                <<channelsLock, "w">>
         [] p.pc = "lock" /\ p.op \in {"List", "BroadcastTo"} -> <<channelsLock, "r">>
         [] p.pc = "lock" /\ p.op = "BroadcastToAll" -> <<sidsLock, "r">>
         [] p.pc = "lock2" -> <<sidsLock, "w">>
         [] p.pc = "alive" -> <<aliveLock(p.c), "w">>
         [] OTHER -> <<<<"none", 0>>, "none">>

Holds(t, l) == \E m \in {"r", "w"} : <<t, l, m>> \in lkHeld

\* sync.RWMutex: Lock waits for every holder; RLock waits for a writer
\* that holds the lock and for a writer that is waiting in Lock
CanLock(t, l, m) ==
    IF m = "w"
    THEN \A u \in LockTasks : ~Holds(u, l)
    ELSE /\ \A u \in LockTasks : <<u, l, "w">> \notin lkHeld
         /\ \A u \in LockTasks \ {t} : Wants(u) # <<l, "w">>

\* the position after the Lock or RLock call returned
Locked(pc) ==
    CASE pc = "lock" -> "locked" [] pc = "lock2" -> "locked2" [] pc = "alive" -> "aliveLocked"

\* the locks held once task t has unlocked l
Unlock(t, l) == lkHeld \ {<<t, l, "r">>, <<t, l, "w">>}

\* a user task calls an operation, which starts with a Lock or RLock call
\* (c.Close() is closeChannel)
LkCall(t, op, c, r) ==
    /\ lkPc[t].pc = "idle"
    /\ \/ op \in ChannelOps /\ c \in active /\ Exposed(c)
       \/ op \in ServerOps /\ c = 0 /\ \A x \in active : emitting[x] < MaxEmits
    /\ lkPc' = [lkPc EXCEPT ![t] =
                  [op |-> op, c |-> c, r |-> r, todo |-> {},
                   pc |-> IF op \in {"IsAlive", "closeChannel"} THEN "alive" ELSE "lock"]]
    /\ UNCHANGED <<regVars, srvVars, setupVars, lifeVars, events, outVars, inVars,
                   pingVars, errLog, ackVars, cliVars, bcVars, lkHeld>>

\* SetupEventLoop reaches callLoopEvent(c, OnConnection): onConnectStore
\* calls sidsLock.Lock()
LkCallConnect(t, c) ==
    /\ lkPc[t].pc = "idle"
    /\ setupPc[c] = "onConn"
    /\ \A u \in LockTasks : ~(lkPc[u].op = "onConnectStore" /\ lkPc[u].c = c)
    /\ lkPc' = [lkPc EXCEPT ![t] =
                  [op |-> "onConnectStore", c |-> c, r |-> 0, todo |-> {}, pc |-> "lock2"]]
    /\ UNCHANGED <<regVars, srvVars, setupVars, lifeVars, events, outVars, inVars,
                   pingVars, errLog, ackVars, cliVars, bcVars, lkHeld>>

\* a Lock or RLock call returns
LkAcquire(t) ==
    /\ Wants(t)[2] # "none"
    /\ CanLock(t, Wants(t)[1], Wants(t)[2])
    /\ lkHeld' = lkHeld \cup {<<t, Wants(t)[1], Wants(t)[2]>>}
    /\ lkPc' = [lkPc EXCEPT ![t].pc = Locked(@)]
    /\ UNCHANGED <<regVars, srvVars, setupVars, lifeVars, events, outVars, inVars,
                   pingVars, errLog, ackVars, cliVars, bcVars>>

\* Channel.Join under channelsLock, and the deferred Unlock
LkJoin(t) ==
    /\ lkPc[t].op = "Join" /\ lkPc[t].pc = "locked"
    /\ channels' = MapPut(channels, lkPc[t].r, MapGet(channels, lkPc[t].r) \cup {lkPc[t].c})
    /\ rooms' = MapPut(rooms, lkPc[t].c, MapGet(rooms, lkPc[t].c) \cup {lkPc[t].r})
    /\ lkHeld' = Unlock(t, channelsLock)
    /\ lkPc' = [lkPc EXCEPT ![t] = LkIdle]
    /\ UNCHANGED <<sids, srvVars, setupVars, lifeVars, events, outVars, inVars,
                   pingVars, errLog, ackVars, cliVars, bcVars>>

\* Channel.Leave under channelsLock, and the deferred Unlock
LkLeave(t) ==
    /\ lkPc[t].op = "Leave" /\ lkPc[t].pc = "locked"
    /\ channels' = LeaveChannels(channels, lkPc[t].c, lkPc[t].r)
    /\ rooms' = IF MapHas(rooms, lkPc[t].c)
                THEN MapPut(rooms, lkPc[t].c, rooms[lkPc[t].c] \ {lkPc[t].r})
                ELSE rooms
    /\ lkHeld' = Unlock(t, channelsLock)
    /\ lkPc' = [lkPc EXCEPT ![t] = LkIdle]
    /\ UNCHANGED <<sids, srvVars, setupVars, lifeVars, events, outVars, inVars,
                   pingVars, errLog, ackVars, cliVars, bcVars>>

\* Server.List copies the room under the read lock, and the deferred RUnlock
LkList(t) ==
    /\ lkPc[t].op = "List" /\ lkPc[t].pc = "locked"
    /\ lkHeld' = Unlock(t, channelsLock)
    /\ lkPc' = [lkPc EXCEPT ![t] = LkIdle]
    /\ UNCHANGED <<regVars, srvVars, setupVars, lifeVars, events, outVars, inVars,
                   pingVars, errLog, ackVars, cliVars, bcVars>>

\* the channels of sids
SidChannels == {sids[k] : k \in DOMAIN sids}

\* BroadcastTo looks the room up and returns if it is missing, or starts
\* its range; BroadcastToAll starts its range over sids
LkRange(t) ==
    /\ lkPc[t].op \in {"BroadcastTo", "BroadcastToAll"} /\ lkPc[t].pc = "locked"
    /\ IF lkPc[t].op = "BroadcastTo" /\ ~MapHas(channels, lkPc[t].r)
       THEN /\ lkHeld' = Unlock(t, channelsLock)
            /\ lkPc' = [lkPc EXCEPT ![t] = LkIdle]
       ELSE /\ lkPc' = [lkPc EXCEPT ![t].pc = "range",
                                    ![t].todo = IF lkPc[t].op = "BroadcastTo"
                                                THEN channels[lkPc[t].r]
                                                ELSE SidChannels]
            /\ UNCHANGED lkHeld
    /\ UNCHANGED <<regVars, srvVars, setupVars, lifeVars, events, outVars, inVars,
                   pingVars, errLog, ackVars, cliVars, bcVars>>

\* the range reaches cn, in any order, and calls cn.IsAlive()
LkVisit(t, cn) ==
    /\ lkPc[t].pc = "range" /\ cn \in lkPc[t].todo
    /\ lkPc' = [lkPc EXCEPT ![t].pc = "alive", ![t].c = cn]
    /\ UNCHANGED <<regVars, srvVars, setupVars, lifeVars, events, outVars, inVars,
                   pingVars, errLog, ackVars, cliVars, bcVars, lkHeld>>

\* IsAlive reads c.alive and unlocks; in a range, go cn.Emit if it was true
LkIsAlive(t) ==
    /\ lkPc[t].op \in {"IsAlive", "BroadcastTo", "BroadcastToAll"}
    /\ lkPc[t].pc = "aliveLocked"
    /\ lkHeld' = Unlock(t, aliveLock(lkPc[t].c))
    /\ IF lkPc[t].op = "IsAlive"
       THEN /\ lkPc' = [lkPc EXCEPT ![t] = LkIdle]
            /\ UNCHANGED emitting
       ELSE /\ lkPc' = [lkPc EXCEPT ![t].pc = "range", ![t].c = 0,
                                    ![t].todo = @ \ {lkPc[t].c}]
            /\ emitting' = [emitting EXCEPT ![lkPc[t].c] =
                              IF alive[lkPc[t].c] THEN @ + 1 ELSE @]
    /\ UNCHANGED <<regVars, srvVars, setupVars, lifeVars, events, outVars, inVars,
                   pingVars, errLog, ackVars, cliVars, bcPc, bcRoom, bcTodo>>

\* the range is over: the deferred RUnlock
LkRangeEnd(t) ==
    /\ lkPc[t].pc = "range" /\ lkPc[t].todo = {}
    /\ lkHeld' = Unlock(t, IF lkPc[t].op = "BroadcastTo" THEN channelsLock ELSE sidsLock)
    /\ lkPc' = [lkPc EXCEPT ![t] = LkIdle]
    /\ UNCHANGED <<regVars, srvVars, setupVars, lifeVars, events, outVars, inVars,
                   pingVars, errLog, ackVars, cliVars, bcVars>>

\* closeChannel that calls callLoopEvent before aliveLock.Unlock()
closeUnlockLate(t, c) == lkHeld

\* the locks held when closeChannel calls callLoopEvent
closeUnlock(t, c) == Unlock(t, aliveLock(c))

\* closeChannel under aliveLock without the test of c.alive
LkCloseUnguarded(t) ==
    /\ lkPc[t].op = "closeChannel" /\ lkPc[t].pc = "aliveLocked"
    /\ connCloses' = [connCloses EXCEPT ![lkPc[t].c] = @ + 1]
    /\ alive' = [alive EXCEPT ![lkPc[t].c] = FALSE]
    /\ lkPc' = [lkPc EXCEPT ![t].pc = "signal"]
    /\ UNCHANGED <<regVars, srvVars, setupVars, aliveC, closer, discPc, events,
                   outVars, inVars, pingVars, errLog, ackVars, cliVars, bcVars,
                   lkHeld>>

\* closeChannel under aliveLock: a closed channel makes it unlock and
\* return; else c.conn.Close() and c.alive = false
LkClose(t) ==
    /\ lkPc[t].op = "closeChannel" /\ lkPc[t].pc = "aliveLocked"
    /\ IF alive[lkPc[t].c]
       THEN /\ connCloses' = [connCloses EXCEPT ![lkPc[t].c] = @ + 1]
            /\ alive' = [alive EXCEPT ![lkPc[t].c] = FALSE]
            /\ lkPc' = [lkPc EXCEPT ![t].pc = "signal"]
            /\ UNCHANGED lkHeld
       ELSE /\ lkHeld' = Unlock(t, aliveLock(lkPc[t].c))
            /\ lkPc' = [lkPc EXCEPT ![t] = LkIdle]
            /\ UNCHANGED <<connCloses, alive>>
    /\ UNCHANGED <<regVars, srvVars, setupVars, aliveC, closer, discPc, events,
                   outVars, inVars, pingVars, errLog, ackVars, cliVars, bcVars>>

\* closeChannel: close(c.aliveC), c.aliveLock.Unlock(), and callLoopEvent
\* reaches onDisconnectCleanup's channelsLock.Lock()
LkCloseSignal(t) ==
    /\ lkPc[t].op = "closeChannel" /\ lkPc[t].pc = "signal"
    /\ aliveC' = [aliveC EXCEPT ![lkPc[t].c] = TRUE]
    /\ closer' = [closer EXCEPT ![lkPc[t].c] = "user"]
    /\ discPc' = [discPc EXCEPT ![lkPc[t].c] = "raise"]
    /\ lkHeld' = closeUnlock(t, lkPc[t].c)
    /\ lkPc' = [lkPc EXCEPT ![t].pc = "lock"]
    /\ UNCHANGED <<regVars, srvVars, setupVars, alive, connCloses, events,
                   outVars, inVars, pingVars, errLog, ackVars, cliVars, bcVars>>

\* onDisconnectCleanup's region under channelsLock
LkCleanRooms(t) ==
    /\ lkPc[t].op = "closeChannel" /\ lkPc[t].pc = "locked"
    /\ events' = [events EXCEPT ![lkPc[t].c] = Append(@, "disc")]
    /\ IF MapHas(rooms, lkPc[t].c)
       THEN /\ channels' = CleanRooms(channels, lkPc[t].c, rooms[lkPc[t].c])
            /\ rooms' = MapDel(rooms, lkPc[t].c)
       ELSE UNCHANGED <<channels, rooms>>
    /\ discPc' = [discPc EXCEPT ![lkPc[t].c] = "cleanSid"]
    /\ lkHeld' = Unlock(t, channelsLock)
    /\ lkPc' = [lkPc EXCEPT ![t].pc = "lock2"]
    /\ UNCHANGED <<sids, srvVars, setupVars, alive, aliveC, connCloses, closer,
                   outVars, inVars, pingVars, errLog, ackVars, cliVars, bcVars>>

\* onDisconnectCleanup's region under sidsLock; the user's handler is called
LkCleanSid(t) ==
    /\ lkPc[t].op = "closeChannel" /\ lkPc[t].pc = "locked2"
    /\ sids' = MapDel(sids, Id(lkPc[t].c))
    /\ discPc' = [discPc EXCEPT ![lkPc[t].c] = "handler"]
    /\ lkHeld' = Unlock(t, sidsLock)
    /\ lkPc' = [lkPc EXCEPT ![t].pc = "handler"]
    /\ UNCHANGED <<channels, rooms, srvVars, setupVars, alive, aliveC, connCloses,
                   closer, events, outVars, inVars, pingVars, errLog, ackVars,
                   cliVars, bcVars>>

\* onConnectStore's region under sidsLock; the user's handler is called
LkStore(t) ==
    /\ lkPc[t].op = "onConnectStore" /\ lkPc[t].pc = "locked2"
    /\ events' = [events EXCEPT ![lkPc[t].c] = Append(@, "conn")]
    /\ onConnectStore(lkPc[t].c)
    /\ setupPc' = [setupPc EXCEPT ![lkPc[t].c] = "connHandler"]
    /\ lkHeld' = Unlock(t, sidsLock)
    /\ lkPc' = [lkPc EXCEPT ![t].pc = "handler"]
    /\ UNCHANGED <<channels, rooms, srvVars, active, hdrSid, lifeVars, outVars,
                   inVars, pingVars, errLog, ackVars, cliVars, bcVars>>

\* the user's handler of the event returns: it holds none of the locks
LkHandlerRet(t) ==
    /\ lkPc[t].pc = "handler"
    /\ IF lkPc[t].op = "closeChannel"
       THEN /\ discPc' = [discPc EXCEPT ![lkPc[t].c] = "done"]
            /\ UNCHANGED setupPc
       ELSE /\ setupPc' = [setupPc EXCEPT ![lkPc[t].c] = "served"]
            /\ UNCHANGED discPc
    /\ lkPc' = [lkPc EXCEPT ![t] = LkIdle]
    /\ UNCHANGED <<regVars, srvVars, active, hdrSid, alive, aliveC, connCloses,
                   closer, events, outVars, inVars, pingVars, errLog, ackVars,
                   cliVars, bcVars, lkHeld>>

\* one session, one room, and tasks that call the locking operations, the
\* connect hook and the disconnect hook at once
InitLocks == InitWith(EngineChans, {0})

NextLocks ==
    \/ \E c \in EngineChans :
         \/ SetupEventLoop(c) \/ SendOpen1(c) \/ SendOpen2(c) \/ StartInLoop(c)
         \/ EmitTask(c)
    \/ \E t \in LockTasks :
         \/ \E op \in ChannelOps, c \in EngineChans, r \in BcRooms :
              LkCall(t, op, c, IF op \in {"Join", "Leave"} THEN r ELSE 0)
         \/ \E op \in ServerOps, r \in BcRooms :
              LkCall(t, op, 0, IF op = "BroadcastToAll" THEN 0 ELSE r)
         \/ (\E c \in EngineChans : LkCallConnect(t, c))
         \/ LkAcquire(t)
         \/ LkJoin(t) \/ LkLeave(t) \/ LkList(t)
         \/ LkRange(t) \/ (\E cn \in EngineChans : LkVisit(t, cn)) \/ LkIsAlive(t)
         \/ LkRangeEnd(t)
         \/ LkClose(t) \/ LkCloseSignal(t) \/ LkCleanRooms(t) \/ LkCleanSid(t) \/ LkStore(t)
         \/ LkHandlerRet(t)

SpecLocks == InitLocks /\ [][NextLocks]_vars

\* task t is blocked by task u: u holds the lock t calls Lock on, or t
\* calls RLock on a lock u holds for writing or waits to write
WaitsFor(t, u) ==
    LET w == Wants(t)
    IN \/ w[2] = "w" /\ Holds(u, w[1])
       \/ w[2] = "r" /\ (<<u, w[1], "w">> \in lkHeld \/ Wants(u) = <<w[1], "w">>)

\* a chain of at most n blocked tasks leads from t to u
RECURSIVE WaitChain(_, _, _)
WaitChain(t, u, n) ==
    /\ n > 0
    /\ \/ WaitsFor(t, u)
       \/ \E v \in LockTasks : WaitsFor(t, v) /\ WaitChain(v, u, n - 1)

\* C21: no task calls channelsLock.Lock or RLock while it holds sidsLock, no
\* task calls Lock or RLock on channelsLock or sidsLock while it holds an
\* aliveLock, and no tasks of Join, Leave, List, BroadcastTo, BroadcastToAll,
\* IsAlive, closeChannel and the two hooks wait for each other in a cycle
C21_LockOrder ==
    /\ \A t \in LockTasks : Holds(t, sidsLock) => Wants(t)[1] # channelsLock
    /\ \A t \in LockTasks, c \in EngineChans :
         Holds(t, aliveLock(c)) => Wants(t)[1] \notin {channelsLock, sidsLock}
    /\ \A t \in LockTasks : ~WaitChain(t, t, NumLockTasks)

\* a broadcast that holds the read lock waits in IsAlive for the aliveLock
\* that a closeChannel holds
C21_Witness ==
    \E t, u \in LockTasks :
        /\ lkPc[t].op \in {"BroadcastTo", "BroadcastToAll"}
        /\ Holds(t, channelsLock) \/ Holds(t, sidsLock)
        /\ WaitsFor(t, u)
        /\ lkPc[u].op = "closeChannel"

\* C22: system slot before user handler. The user's OnDisconnection handler
\* is entered only by the step that ends onDisconnectCleanup: the region
\* under channelsLock has left c in no room and without a rooms entry, the
\* region under sidsLock has left no entry under c's sid; the user's
\* OnConnection handler is entered only by the step in which onConnectStore
\* has stored c under its sid.
C22_SystemSlotFirst ==
    [][\A c \in Chans :
         /\ (discPc[c] # "cleanSid" /\ discPc'[c] = "cleanSid")
            => /\ discPc[c] = "raise"
               /\ Raised(c, "disc")' = Raised(c, "disc") + 1
               /\ ~MapHas(rooms', c)
               /\ \A r \in DOMAIN channels' : c \notin channels'[r]
         /\ (discPc[c] # "handler" /\ discPc'[c] = "handler")
            => /\ discPc[c] = "cleanSid"
               /\ ~MapHas(sids', hdrSid'[c])
         /\ (setupPc[c] # "connHandler" /\ setupPc'[c] = "connHandler")
            => /\ Raised(c, "conn")' = Raised(c, "conn") + 1
               /\ MapHas(sids', hdrSid'[c]) /\ sids'[hdrSid'[c]] = c
      ]_vars

\* the user's OnDisconnection handler of a session runs, the session is in
\* no room and has no sid entry, while another session is stored and joined
C22_Witness ==
    \E c, d \in Chans :
        /\ c # d
        /\ discPc[c] = "handler" /\ Raised(c, "disc") = 1
        /\ ~MapHas(rooms, c) /\ ~MapHas(sids, Id(c))
        /\ setupPc[d] = "connHandler"
        /\ MapHas(sids, Id(d)) /\ \E r \in DOMAIN channels : d \in channels[r]

\* C23: open sequence. The out-loop is started before the open sequence is
\* enqueued and the in-loop after it; the first frame written to the
\* transport is OPEN, the second EMPTY; an EMPTY frame is written only
\* directly after an OPEN frame.
C23_OpenSequence ==
    \A c \in EngineChans :
        /\ outPc[c] = "idle" => nEnq[c] = 0
        /\ inPc[c] # "idle" => setupPc[c] \notin {"new", "open1", "open2", "startIn"}
        /\ Len(wlog[c]) >= 1 => wlog[c][1].k = "OPEN"
        /\ Len(wlog[c]) >= 2 => wlog[c][2].k = "EMPTY"
        /\ \A i \in DOMAIN wlog[c] :
             wlog[c][i].k = "EMPTY" => i > 1 /\ wlog[c][i - 1].k = "OPEN"

\* the engine tasks of session c that were started and have not exited:
\* its out-loop, its in-loop, its dispatch tasks
LiveTasks(c) ==
    (IF outPc[c] \in {"idle", "exited"} THEN 0 ELSE 1)
    + (IF inPc[c] \in {"idle", "exited"} THEN 0 ELSE 1)
    + Cardinality(DOMAIN tasks[c])

\* C24: task counter accuracy. The counter is never negative and never below
\* the number of engine tasks started and not yet exited; it goes up by one
\* with every task that starts and down by one with every task that exits,
\* and a dispatch with limit 0 leaves it alone.
C24_TaskCounter ==
    /\ [](\A c \in EngineChans : count >= 0 /\ count >= LiveTasks(c))
    /\ [][\A c \in EngineChans :
            /\ count' - count = LiveTasks(c)' - LiveTasks(c)
            /\ count' - count \in {-1, 0, 1}
            /\ (limit = 0 /\ nRead'[c] # nRead[c]) => count' = count
         ]_vars

\* both loops and a dispatch task of a limited session run, the counter is 3
C24_Witness ==
    \E c \in EngineChans :
        /\ limit > 0 /\ count = 3 /\ LiveTasks(c) = 3
        /\ \E k \in DOMAIN tasks[c] : tasks[c][k] = "run"

\* the dispatch tasks of c that have acquired a slot and not released it
Holding(c) == {k \in DOMAIN tasks[c] : tasks[c][k] \in {"run", "rel"}}

\* C25: rate-limiter slot conservation. With limit > 0 the occupied slots of
\* a channel are exactly its dispatch tasks that acquired and have not
\* released; a slot is freed only by the release of a task whose work has
\* ended, once per task; with every task released the limiter is empty; and
\* a message that arrives with fewer than limit slots occupied is accepted,
\* a message is dropped only with all limit slots occupied.
C25_SlotConservation ==
    /\ [](\A c \in EngineChans :
            limit > 0 => /\ rl[c] = Cardinality(Holding(c))
                         /\ rl[c] <= limit
                         /\ (Holding(c) = {} => rl[c] = 0))
    /\ [][\A c \in EngineChans :
            limit > 0 =>
              /\ rl'[c] < rl[c]
                 => /\ rl'[c] = rl[c] - 1
                    /\ \E k \in DOMAIN tasks[c] :
                         /\ tasks[c][k] = "rel" /\ tasks'[c][k] = "dec"
                         /\ \A j \in DOMAIN tasks[c] \ {k} : tasks'[c][j] = tasks[c][j]
              /\ \A k \in DOMAIN tasks[c] :
                   tasks[c][k] = "dec" => (k \in DOMAIN tasks'[c] => tasks'[c][k] = "dec")
              /\ nRead'[c] # nRead[c]
                 => IF rl[c] < limit
                    THEN /\ nRead'[c] \in DOMAIN tasks'[c]
                         /\ tasks'[c][nRead'[c]] = "run"
                         /\ rl'[c] = rl[c] + 1
                         /\ errLog'[c] = errLog[c]
                    ELSE /\ tasks'[c] = tasks[c] /\ rl'[c] = rl[c]
                         /\ errLog'[c] = Append(errLog[c], [e |-> "ratelimit", k |-> nRead'[c]])
         ]_vars

\* the limiter was full, the handler returned and its task released, and
\* the next message was accepted
C25_Witness ==
    \E c \in EngineChans :
        /\ limit > 0 /\ rl[c] = limit
        /\ nRead[c] = limit + 1
        /\ Holding(c) = {limit + 1}
        /\ errLog[c] = <<>>

C27_SidsConsistent ==
    /\ [](/\ \A k \in DOMAIN sids : Id(sids[k]) = k
          /\ \A k, j \in DOMAIN sids : sids[k] = sids[j] => k = j)
    /\ [][\A c \in EngineChans : setupPc[c] # "new" => hdrSid'[c] = hdrSid[c]]_vars

\* C28: no closed channel stays registered. Once onDisconnectCleanup has
\* completed for a closed channel, the channel is the value of no entry of
\* sids, has no entry in rooms and is in no room.
C28_NoClosedRegistered ==
    \A c \in Chans :
        discPc[c] \in {"handler", "done"}
        => /\ \A k \in DOMAIN sids : sids[k] # c
           /\ ~MapHas(rooms, c)
           /\ \A r \in DOMAIN channels : c \notin channels[r]

\* C29: lifecycle event order. The events raised for a session are a prefix
\* of (OnConnection, OnDisconnection): OnDisconnection is raised at most
\* once and only after the session's one OnConnection.
C29_LifecycleOrder ==
    \A c \in EngineChans :
        events[c] \in {<<>>, <<"conn">>, <<"conn", "disc">>}
====
